---- MODULE Spec2Model ----
(***************************************************************************)
(* proto-pi-embedded: animation playback state machine (animation.py),     *)
(* the animation controller and the render loop / command threads of       *)
(* boot.py, and the Matrix display driver (matrix.py).                     *)
(*                                                                         *)
(* Times are integer milliseconds, as in the code (time_ns() // 1_000_000, *)
(* int(duration * 1000), int(hold * 1000)).                                *)
(***************************************************************************)
EXTENDS Integers, Naturals, Sequences, FiniteSets, TLC

(***************************************************************************)
(* Bounds of the model.                                                    *)
(***************************************************************************)
\* largest number of frames of an animation
MaxFrames == 3
\* longest time (ms) one render-loop iteration takes (sleep + work)
MaxStep == 2
\* latest time (ms) at which the single play() of SpecPlay is issued
MaxPlayAt == 1
\* longest animation duration (ms)
MaxDur == 12
\* longest fixed hold (ms)
MaxHold == 3

\* the clock stops here: late enough for a whole cycle with the longest hold
MaxTime == MaxPlayAt + MaxDur + MaxHold + MaxStep

FrameCounts == 1..MaxFrames
Durations == {0, 2, MaxDur}
Holds == {0, MaxHold}
\* randomHold ranges {start, end} in ms; <<0, 0>> is the default (unset)
RandomHolds == {<<0, 0>>, <<1, 4>>}

VARIABLES
    now,        \* the clock, ms (time.time_ns() // 1_000_000)
    anim,       \* the Animation under test: configuration and playback state
    played,     \* history: play() has been called
    tracing,    \* history is kept in full (the runs that are left alone after play())
    trace,      \* history: the frame indices entered since play(), in order
    lastEvent,  \* history: what the last advance_frame did
    cycleStart, \* history: time of play() or of the last loop restart
    heap,       \* the Animation objects constructed so far, by object id
    animations, \* AnimationController._animations: name -> object id (0: no entry)
    lock,       \* owner of AnimationController._animations_lock ("free" if none)
    is_loading, \* AnimationController.is_loading
    stdin,      \* control messages written to stdin and not read yet
    sent,       \* number of control messages written so far
    rpc,        \* render loop (boot.main): the statement it is at
    visit,      \* render loop in tick(): objects of the snapshot still to visit
    tpc,        \* command threads (boot.run): the statement each is at
    tmsg,       \* command threads: the message read / the command created
    tobj,       \* command threads: the Animation object the command works on
    access,     \* history: the last access to the name -> Animation mapping
    matrix,     \* the Matrix: its configuration, _buffer and _checksum
    wire,       \* history: chip-select and SPI traffic of the last row write
    shw,        \* Matrix.show(): the statement it is at, and history of the call
    baked       \* a frame on its way from the baking tool into a Frame object

animVars == <<anim, played, tracing, trace, lastEvent, cycleStart, baked>>
ctlVars == <<heap, animations, lock, is_loading, stdin, sent, rpc, visit, tpc, tmsg, tobj, access>>
matVars == <<matrix, wire, shw>>
sysVars == <<ctlVars, matVars>>
vars == <<now, anim, played, tracing, trace, lastEvent, cycleStart,
          heap, animations, lock, is_loading, stdin, sent, rpc, visit, tpc, tmsg, tobj, access,
          matrix, wire, shw, baked>>

(***************************************************************************)
(* Animation (animation.py)                                                *)
(***************************************************************************)

\* Animation.__init__: the playback state after construction
Animation(frames, duration_millis, hold_millis, random_hold, loop, reverse) ==
    [ frames          |-> frames,
      duration_millis |-> duration_millis,
      hold_millis     |-> hold_millis,
      random_hold     |-> random_hold,
      loop            |-> loop,
      reverse         |-> reverse,
      is_playing      |-> FALSE,
      is_reversing    |-> FALSE,
      frame_id        |-> 0,
      start_millis    |-> 0 ]

\* the values int(random.uniform(start, end) * 1000) can take
HoldDraws(a) ==
    IF a.random_hold[2] # 0 /\ a.random_hold[1] < a.random_hold[2]
    THEN a.random_hold[1] .. (a.random_hold[2] - 1)
    ELSE {0}

\* Animation.hold; draw is the value random.uniform yields if it is called
hold(a, draw) ==
    IF a.hold_millis > 0 THEN a.hold_millis
    ELSE IF a.random_hold[2] # 0 /\ a.random_hold[1] < a.random_hold[2] THEN draw
    ELSE 0

\* Animation._frame_millis
frame_millis(a) ==
    LET frame_count == IF a.reverse THEN a.frames * 2 - 1 ELSE a.frames
    IN  a.duration_millis \div frame_count

\* the is_last_frame expression of _next_millis and advance_frame
is_last_frame(a) ==
    IF ~a.is_reversing THEN a.frame_id = a.frames - 1 ELSE a.frame_id = 0

\* _next_millis with the hold applied at every frame (is_last_frame not tested)
next_millis_hold_at_every_frame(a, d1, d2) ==
    IF ~a.is_playing THEN 0
    ELSE IF hold(a, d1) > 0 THEN hold(a, d2)
    ELSE LET frame_id == a.frame_id + 1
             nm == IF ~a.is_reversing
                   THEN frame_id * frame_millis(a)
                   ELSE (a.frames * 2 - frame_id) * frame_millis(a)
         IN  IF a.loop /\ a.is_reversing /\ is_last_frame(a)
             THEN nm - frame_millis(a)
             ELSE nm

\* Animation._next_millis; self.hold is evaluated twice (draws d1, d2)
next_millis(a, d1, d2) ==
    IF ~a.is_playing THEN 0
    ELSE IF hold(a, d1) > 0 /\ is_last_frame(a) THEN hold(a, d2)
    ELSE LET frame_id == a.frame_id + 1
             nm == IF ~a.is_reversing
                   THEN frame_id * frame_millis(a)
                   ELSE (a.frames * 2 - frame_id) * frame_millis(a)
         IN  IF a.loop /\ a.is_reversing /\ is_last_frame(a)
             THEN nm - frame_millis(a)
             ELSE nm

\* _next_millis divides by zero in _frame_millis: the animation has no frame
\* (and is not reversed), and the hold branch did not return before
next_millis_raises(a, d1) ==
    /\ a.is_playing
    /\ ~(hold(a, d1) > 0 /\ is_last_frame(a))
    /\ (IF a.reverse THEN a.frames * 2 - 1 ELSE a.frames) = 0

\* Region.get_frame(frame_id) raises IndexError: self._frames[frame_id] with
\* frame_id outside -F .. F-1
get_frame_raises(a) == a.frame_id < -a.frames \/ a.frame_id >= a.frames

\* Animation._current_millis
current_millis(a, t) == t - a.start_millis

\* Animation.should_advance
should_advance(a, t, d1, d2) ==
    LET nm == next_millis(a, d1, d2)
    IN  current_millis(a, t) >= nm /\ nm > 0 /\ a.is_playing

\* Animation.play
play(a, t) ==
    [a EXCEPT !.is_playing = TRUE, !.start_millis = t,
              !.frame_id = 0, !.is_reversing = FALSE]

\* Animation.pause
pause(a) == [a EXCEPT !.is_playing = FALSE]

\* Animation.resume
resume(a, t) ==
    [a EXCEPT !.is_playing = TRUE, !.start_millis = t - current_millis(a, t)]

\* stop that forgets to reset the frame index
stop_keeps_frame(a) ==
    [a EXCEPT !.is_playing = FALSE, !.is_reversing = FALSE, !.start_millis = 0]

\* Animation.stop
stop(a) ==
    [a EXCEPT !.is_playing = FALSE, !.frame_id = 0,
              !.is_reversing = FALSE, !.start_millis = 0]

\* advance_frame that stops at the terminal frame whatever the loop flag is
advance_kind_ignores_loop(a, t, d1, d2) ==
    IF ~should_advance(a, t, d1, d2) THEN "none"
    ELSE IF a.frame_id = a.frames - 1 /\ a.reverse /\ ~a.is_reversing THEN "turn"
    ELSE IF is_last_frame(a) THEN "stop"
    ELSE "step"

\* advance_frame that turns round at the last frame whatever the reverse flag is
advance_kind_turns_always(a, t, d1, d2) ==
    IF ~should_advance(a, t, d1, d2) THEN "none"
    ELSE IF a.frame_id = a.frames - 1 /\ ~a.is_reversing THEN "turn"
    ELSE IF is_last_frame(a) /\ ~a.loop THEN "stop"
    ELSE IF is_last_frame(a) /\ a.loop THEN "loop"
    ELSE "step"

\* which branch of advance_frame is taken
advance_kind(a, t, d1, d2) ==
    IF ~should_advance(a, t, d1, d2) THEN "none"
    ELSE IF a.frame_id = a.frames - 1 /\ a.reverse /\ ~a.is_reversing THEN "turn"
    ELSE IF is_last_frame(a) /\ ~a.loop THEN "stop"
    ELSE IF is_last_frame(a) /\ a.loop THEN "loop"
    ELSE "step"

\* advance_frame whose loop restart keeps the direction and the start time
advance_frame_restarts_in_place(a, t, d1, d2) ==
    LET kind == advance_kind(a, t, d1, d2)
    IN  CASE kind = "none" -> a
          [] kind = "turn" -> [a EXCEPT !.is_reversing = TRUE, !.frame_id = a.frames - 2]
          [] kind = "stop" -> stop(a)
          [] kind = "loop" -> [a EXCEPT !.frame_id = 0]
          [] kind = "step" -> [a EXCEPT !.frame_id =
                                  a.frame_id + (IF ~a.is_reversing THEN 1 ELSE -1)]

\* Animation.advance_frame
advance_frame(a, t, d1, d2) ==
    LET kind == advance_kind(a, t, d1, d2)
    IN  CASE kind = "none" -> a
          [] kind = "turn" -> [a EXCEPT !.is_reversing = TRUE, !.frame_id = a.frames - 2]
          [] kind = "stop" -> stop(a)
          [] kind = "loop" -> [a EXCEPT !.is_reversing = FALSE, !.frame_id = 0,
                                        !.start_millis = t]
          [] kind = "step" -> [a EXCEPT !.frame_id =
                                  a.frame_id + (IF ~a.is_reversing THEN 1 ELSE -1)]

(***************************************************************************)
(* Matrix (matrix.py): the display buffer, its checksum, the addressing    *)
(* of the daisy-chained devices and the wire protocol of show().           *)
(***************************************************************************)

\* command constants of the MAX7219
NOOP == 0
DIGIT_0 == 1
\* Matrix.__init__: pixels_per_side
pixels_per_side == 8

\* the lookup table for CRC8 (_table), index 0..255 stored at 1..256
table ==
    << 0,   7,  14,   9,  28,  27,  18,  21,  56,  63,  54,  49,  36,  35,  42,  45,
       112, 119, 126, 121, 108, 107,  98, 101,  72,  79,  70,  65,  84,  83,  90,  93,
       224, 231, 238, 233, 252, 251, 242, 245, 216, 223, 214, 209, 196, 195, 202, 205,
       144, 151, 158, 153, 140, 139, 130, 133, 168, 175, 166, 161, 180, 179, 186, 189,
       199, 192, 201, 206, 219, 220, 213, 210, 255, 248, 241, 246, 227, 228, 237, 234,
       183, 176, 185, 190, 171, 172, 165, 162, 143, 136, 129, 134, 147, 148, 157, 154,
        39,  32,  41,  46,  59,  60,  53,  50,  31,  24,  17,  22,   3,   4,  13,  10,
        87,  80,  89,  94,  75,  76,  69,  66, 111, 104,  97, 102, 115, 116, 125, 122,
       137, 142, 135, 128, 149, 146, 155, 156, 177, 182, 191, 184, 173, 170, 163, 164,
       249, 254, 247, 240, 229, 226, 235, 236, 193, 198, 207, 200, 221, 218, 211, 212,
       105, 110, 103,  96, 117, 114, 123, 124,  81,  86,  95,  88,  77,  74,  67,  68,
        25,  30,  23,  16,   5,   2,  11,  12,  33,  38,  47,  40,  61,  58,  51,  52,
        78,  73,  64,  71,  82,  85,  92,  91, 118, 113, 120, 127, 106, 109, 100,  99,
        62,  57,  48,  55,  34,  37,  44,  43,   6,   1,   8,  15,  26,  29,  20,  19,
       174, 169, 160, 167, 178, 181, 188, 187, 150, 145, 152, 159, 138, 141, 132, 131,
       222, 217, 208, 215, 194, 197, 204, 203, 230, 225, 232, 239, 250, 253, 244, 243 >>

\* bit k of byte b, and the byte made of eight bits
Bit(b, k) == (b \div (2 ^ k)) % 2
ByteOf(bits) ==
    bits[0] + 2 * bits[1] + 4 * bits[2] + 8 * bits[3]
    + 16 * bits[4] + 32 * bits[5] + 64 * bits[6] + 128 * bits[7]

\* a ^ b on bytes
Xor(a, b) == ByteOf([k \in 0..7 |-> (Bit(a, k) + Bit(b, k)) % 2])

RECURSIVE crc82_range(_, _, _, _)
\* the loop of _crc82 over the bytes lo .. hi-1, entered with _sum = sum:
\* _sum = table[_sum ^ byte] for each byte in order (the range is walked
\* half by half, the first half is finished before the second is begun)
crc82_range(buffer, sum, lo, hi) ==
    IF hi = lo THEN sum
    ELSE IF hi = lo + 1 THEN table[Xor(sum, buffer[lo]) + 1]
    ELSE LET mid == (lo + hi) \div 2
             left == crc82_range(buffer, sum, lo, mid)
         IN  IF left < 0 THEN left ELSE crc82_range(buffer, left, mid, hi)

\* _crc82 of one bytearray (indexed from 0)
crc82(buffer) == crc82_range(buffer, 0, 0, Cardinality(DOMAIN buffer))

\* Matrix.__init__: a zeroed buffer of device_count * pixels_per_side bytes,
\* _checksum = 0
Matrix(cols, rows, reverse_ids, skip_devices) ==
    [ cols         |-> cols,
      rows         |-> rows,
      reverse_ids  |-> reverse_ids,
      skip_devices |-> skip_devices,
      buffer       |-> [i \in 0..(cols * rows * pixels_per_side - 1) |-> 0],
      checksum     |-> 0 ]

\* Matrix.device_count, width, height
device_count(m) == m.cols * m.rows
width(m) == m.cols * pixels_per_side
height(m) == m.rows * pixels_per_side

\* Matrix.current_checksum
current_checksum(m) == crc82(m.buffer)

\* changed that reports a change whatever the checksums are
changed_always(m) == TRUE

\* Matrix.changed
changed(m) == current_checksum(m) # m.checksum

\* FrameBuffer.fill_rect on the MONO_HLSB buffer: pixel (x, y) is bit
\* 7 - x % 8 of byte y * cols + x // 8; the rectangle is clipped to the buffer
fill_rect(m, x, y, w, h, c) ==
    [m EXCEPT !.buffer =
        [i \in DOMAIN m.buffer |->
            LET py == i \div m.cols
                bx == (i % m.cols) * 8
            IN  ByteOf([k \in 0..7 |->
                    LET px == bx + (7 - k)
                    IN  IF x <= px /\ px < x + w /\ y <= py /\ py < y + h
                        THEN (IF c # 0 THEN 1 ELSE 0)
                        ELSE Bit(m.buffer[i], k)])]]

\* FrameBuffer.fill
fill(m, c) == fill_rect(m, 0, 0, width(m), height(m), c)

\* Matrix.zero
zero(m) == fill(m, 0)

\* _get_buffer_index with the row offset not scaled by the number of columns
get_buffer_index_unscaled(m, device_id, row_number) ==
    LET d == IF m.reverse_ids THEN device_count(m) - device_id - 1 ELSE device_id
    IN  ((d \div m.cols) * pixels_per_side + row_number) + (d % m.cols)

\* _get_buffer_index without the device-id reversal
get_buffer_index_ignores_reverse(m, device_id, row_number) ==
    ((device_id \div m.cols) * pixels_per_side + row_number) * m.cols + (device_id % m.cols)

\* _get_buffer_index that counts only the devices that are not skipped
get_buffer_index_compacts_skipped(m, device_id, row_number) ==
    LET d0 == IF m.reverse_ids THEN device_count(m) - device_id - 1 ELSE device_id
        d == d0 - Cardinality({s \in m.skip_devices : s < d0})
    IN  ((d \div m.cols) * pixels_per_side + row_number) * m.cols + (d % m.cols)

\* Matrix._get_buffer_index
get_buffer_index(m, device_id, row_number) ==
    LET d == IF m.reverse_ids THEN device_count(m) - device_id - 1 ELSE device_id
    IN  ((d \div m.cols) * pixels_per_side + row_number) * m.cols + (d % m.cols)

\* what goes over the wire: chip select driven to v, one two-byte SPI write
CS(v) == <<"cs", v, 0>>
SPI(command, data) == <<"spi", command, data>>

\* n no-op pairs
NoOps(n) == [k \in 1..n |-> SPI(NOOP, 0)]

\* the row frame with the real pair first and all no-ops after it
row_frame_pads_after(m, device_id, row) ==
    <<CS(0)>>
    \o <<SPI(DIGIT_0 + row, m.buffer[get_buffer_index(m, device_id, row)])>>
    \o NoOps(device_count(m) - 1)
    \o <<CS(1)>>

\* _show_device, one pass of its row loop: cs(0), a no-op pair for every
\* device after device_id, the (cmd, data) pair, a no-op pair for every
\* device before device_id, cs(1)
row_frame(m, device_id, row) ==
    <<CS(0)>>
    \o NoOps(device_count(m) - device_id - 1)
    \o <<SPI(DIGIT_0 + row, m.buffer[get_buffer_index(m, device_id, row)])>>
    \o NoOps(device_id)
    \o <<CS(1)>>

(***************************************************************************)
(* One Animation driven by play/pause/resume/stop calls and by ticks.      *)
(***************************************************************************)

NoEvent == [kind |-> "none", from |-> 0, reversing |-> FALSE, elapsed |-> 0, cycle |-> 0]

TraceCap == 2 * MaxFrames + 1

Record(tr, frame_id) ==
    IF Len(tr) < TraceCap THEN Append(tr, frame_id) ELSE tr

\* show() is not running and has not been called
NoShow == [pc |-> "idle", force |-> FALSE, device |-> 0, row |-> 0, idx |-> 0,
           frames |-> 0, sent |-> <<>>, last |-> "none", before |-> "none",
           quiet |-> TRUE, calls |-> 0, writes |-> 0]

\* no frame is being baked or loaded
NoFrame == [pc |-> "none"]

\* a single device, never shown
MatrixIdle ==
    /\ matrix = Matrix(1, 1, FALSE, {})
    /\ wire = <<>>
    /\ shw = NoShow
    /\ baked = NoFrame

\* no controller, no render loop, no command thread
CtlIdle ==
    /\ heap = <<>>
    /\ animations = [n \in {} |-> 0]
    /\ lock = <<"free">>
    /\ is_loading = FALSE
    /\ stdin = <<>>
    /\ sent = 0
    /\ rpc = "off"
    /\ visit = {}
    /\ tpc = <<>>
    /\ tmsg = <<>>
    /\ tobj = <<>>
    /\ access = [by |-> <<"none">>, op |-> "none", held |-> FALSE]

SysIdle == CtlIdle /\ MatrixIdle

InitAnimation ==
    /\ now = 0
    /\ \E f \in FrameCounts, d \in Durations, h \in Holds, r \in RandomHolds,
          l \in BOOLEAN, rv \in BOOLEAN :
          anim = Animation(f, d, h, r, l, rv)
    /\ played = FALSE
    /\ trace = <<>>
    /\ lastEvent = NoEvent
    /\ cycleStart = 0

\* a play() call at the current time
Play ==
    /\ anim' = play(anim, now)
    /\ played' = TRUE
    /\ trace' = IF tracing THEN <<0>> ELSE trace
    /\ lastEvent' = NoEvent
    /\ cycleStart' = IF tracing THEN now ELSE cycleStart
    /\ UNCHANGED <<now, tracing, baked, sysVars>>

\* a pause() call
Pause ==
    /\ anim' = pause(anim)
    /\ lastEvent' = NoEvent
    /\ UNCHANGED <<now, played, tracing, trace, cycleStart, baked, sysVars>>

\* a resume() call
Resume ==
    /\ anim' = resume(anim, now)
    /\ lastEvent' = NoEvent
    /\ UNCHANGED <<now, played, tracing, trace, cycleStart, baked, sysVars>>

\* a stop() call
Stop ==
    /\ anim' = stop(anim)
    /\ lastEvent' = NoEvent
    /\ UNCHANGED <<now, played, tracing, trace, cycleStart, baked, sysVars>>

\* one render-loop iteration: dt ms pass, then tick() visits the animation
\* (AnimationController.tick: advance_frame is called when animation.playing)
Tick ==
    \E dt \in 1..MaxStep, d1 \in HoldDraws(anim), d2 \in HoldDraws(anim) :
        /\ now + dt <= MaxTime
        /\ now' = now + dt
        /\ LET kind == advance_kind(anim, now', d1, d2)
               next == IF anim.is_playing THEN advance_frame(anim, now', d1, d2) ELSE anim
           IN  /\ anim' = next
               /\ IF kind = "none"
                  THEN UNCHANGED <<trace, lastEvent, cycleStart>>
                  ELSE /\ lastEvent' = [kind |-> kind, from |-> anim.frame_id,
                                        reversing |-> anim.is_reversing,
                                        elapsed |-> IF tracing THEN current_millis(anim, now') ELSE 0,
                                        cycle |-> IF tracing THEN now' - cycleStart ELSE 0]
                       /\ cycleStart' = IF kind = "loop" /\ tracing THEN now' ELSE cycleStart
                       /\ trace' = IF kind = "stop" \/ ~tracing THEN trace
                                   ELSE Record(trace, next.frame_id)
        /\ UNCHANGED <<played, tracing, baked, sysVars>>

NextAnim == Play \/ Pause \/ Resume \/ Stop \/ Tick

InitAnim == InitAnimation /\ tracing = FALSE /\ SysIdle

SpecAnim == InitAnim /\ [][NextAnim]_vars

\* play() once, then only ticks: the animation left alone by commands
PlayOnce == ~played /\ now <= MaxPlayAt /\ Play

NextPlay == PlayOnce \/ Tick

InitPlay == InitAnimation /\ tracing = TRUE /\ SysIdle

SpecPlay == InitPlay /\ [][NextPlay]_vars /\ WF_vars(Tick)

\* a pause() call on the playing animation; the elapsed time and the frame
\* at the call are kept as history
PauseCall ==
    /\ anim.is_playing
    /\ anim' = pause(anim)
    /\ lastEvent' = [kind |-> "pause", from |-> anim.frame_id, reversing |-> anim.is_reversing,
                     elapsed |-> current_millis(anim, now), cycle |-> now]
    /\ UNCHANGED <<now, played, tracing, trace, cycleStart, baked, sysVars>>

\* the resume() call that follows it; the time of the call is kept as history
ResumeCall ==
    /\ lastEvent.kind = "pause"
    /\ anim' = resume(anim, now)
    /\ lastEvent' = [lastEvent EXCEPT !.kind = "resume", !.cycle = now]
    /\ UNCHANGED <<now, played, tracing, trace, cycleStart, baked, sysVars>>

NextPause == PlayOnce \/ Tick \/ PauseCall \/ ResumeCall

\* play() once, ticks, and pause() / resume() pairs
SpecPause == InitAnim /\ [][NextPause]_vars

\* one render-loop iteration as in Tick, with the threshold should_advance
\* compared the elapsed time with (_next_millis) kept as history, also when
\* the animation did not advance ("wait")
TickDraw ==
    \E dt \in 1..MaxStep, d1 \in HoldDraws(anim), d2 \in HoldDraws(anim) :
        /\ anim.is_playing
        /\ now + dt <= MaxTime
        /\ now' = now + dt
        /\ anim' = advance_frame(anim, now', d1, d2)
        /\ lastEvent' = [kind |-> IF advance_kind(anim, now', d1, d2) = "none" THEN "wait"
                                  ELSE advance_kind(anim, now', d1, d2),
                         from |-> anim.frame_id,
                         reversing |-> anim.is_reversing,
                         elapsed |-> next_millis(anim, d1, d2),
                         cycle |-> 0]
        /\ UNCHANGED <<played, tracing, trace, cycleStart, baked, sysVars>>

NextHold == PlayOnce \/ TickDraw

\* play() once, then ticks whose thresholds are observed
SpecHold == InitAnim /\ [][NextHold]_vars

(***************************************************************************)
(* The controller, the render loop and the command threads (boot.py).      *)
(* The render loop polls stdin, spawns a command thread per readable       *)
(* message when is_loading is false, ticks, shows and sleeps.  A command   *)
(* thread sets is_loading, reads one line, creates the command, executes   *)
(* it and clears is_loading.                                               *)
(***************************************************************************)

\* number of command threads that can be alive at once
MaxThreads == 2
\* number of control messages written to stdin
MaxMsgs == 2
\* the clock of the system runs to here
MaxSysTime == 3

Threads == 1..MaxThreads
Names == {"a", "b"}

Free == <<"free">>
Render == <<"render">>
Cmd(t) == <<"cmd", t>>

\* the keys of the registry: the names the messages use, the name of a
\* baked animation no message names, and the name Animation.from_json gives
\* a record without one
Keys == Names \cup {"c", "default"}

\* an Animation object: its name, the number of its regions, its
\* configuration and playback state
Obj(name, regions, a) == [name |-> name, regions |-> regions, a |-> a]

\* the animation record of a load message: its regions and the rest
LoadRecord(regions, a) == [regions |-> regions, a |-> a]

\* Animation.from_json({}): what LoadCommand builds when the payload has no
\* animation record
DefaultRecord == LoadRecord(0, Animation(0, 0, 0, <<0, 0>>, FALSE, FALSE))

\* the animation records a load message can carry: two frames and no region,
\* two frames in one region, one frame played back and forth in one region
LoadConfigs ==
    << LoadRecord(0, Animation(2, 2, 0, <<0, 0>>, FALSE, FALSE)),
       LoadRecord(1, Animation(2, 2, 0, <<0, 0>>, FALSE, FALSE)),
       LoadRecord(1, Animation(1, 1, 0, <<0, 0>>, FALSE, TRUE)) >>

\* the records SpecSys loads
SaneConfigs == {1}

\* a control message {command, payload: {animation, target, play, regions}};
\* "" stands for a missing field, cfg indexes LoadConfigs
Msg(c, n, tg, pl, k) ==
    [command |-> c, animation |-> n, target |-> tg, play |-> pl, cfg |-> k,
     regions |-> <<>>]

Messages ==
    {Msg(c, n, "", FALSE, 0) : c \in {"play", "stop", "pause", "resume"}, n \in Names \cup {""}}
    \cup {Msg("load", n, "", pl, k) : n \in Names, pl \in BOOLEAN, k \in SaneConfigs}
    \cup {Msg("clear", "", "animations", FALSE, 0)}
    \cup {Msg("", "", "", FALSE, 0), Msg("bogus", "", "", FALSE, 0)}

NoMsg == Msg("none", "", "", FALSE, 0)
NoAccess == [by |-> <<"none">>, op |-> "none", held |-> FALSE]

\* AnimationCommandFactory.create and the command constructors raise ValueError
Rejected(m) ==
    \/ m.command = ""
    \/ m.command \notin {"test", "play", "stop", "pause", "resume", "load", "clear"}
    \/ m.command \in {"play", "stop", "pause", "resume"} /\ m.animation = ""

\* boot.main before the loop: AnimationController(display), load_baked("/data")
\* with one baked looping animation "a", added and played
InitSys ==
    /\ now = 0
    /\ heap = << Obj("a", 0, play(Animation(2, 2, 0, <<0, 0>>, TRUE, FALSE), 0)) >>
    /\ animations = [n \in Keys |-> IF n = "a" THEN 1 ELSE 0]
    /\ lock = Free
    /\ is_loading = FALSE
    /\ stdin = <<>>
    /\ sent = 0
    /\ rpc = "poll"
    /\ visit = {}
    /\ tpc = [t \in Threads |-> "none"]
    /\ tmsg = [t \in Threads |-> NoMsg]
    /\ tobj = [t \in Threads |-> 0]
    /\ access = NoAccess
    /\ MatrixIdle
    /\ anim = Animation(1, 0, 0, <<0, 0>>, FALSE, FALSE)
    /\ played = FALSE
    /\ tracing = FALSE
    /\ trace = <<>>
    /\ lastEvent = NoEvent
    /\ cycleStart = 0

\* the caller writes one control message line to stdin
Send ==
    /\ sent < MaxMsgs
    /\ \E m \in Messages : stdin' = Append(stdin, m)
    /\ sent' = sent + 1
    /\ UNCHANGED <<now, animVars, matVars, heap, animations, lock, is_loading, rpc, visit,
                   tpc, tmsg, tobj, access>>

\* main: if poll.poll(0) and not is_loading: start_new_thread(run, ...)
\* (the new thread takes the lowest free slot; no more than MaxThreads threads
\* are alive at once)
R_Poll ==
    /\ rpc = "poll"
    /\ rpc' = "tick"
    /\ IF stdin # <<>> /\ ~is_loading /\ \E t \in Threads : tpc[t] = "none"
       THEN LET t == CHOOSE i \in Threads :
                         tpc[i] = "none" /\ \A j \in Threads : tpc[j] = "none" => i <= j
            IN  tpc' = [tpc EXCEPT ![t] = "start"]
       ELSE UNCHANGED tpc
    /\ UNCHANGED <<now, animVars, matVars, heap, animations, lock, is_loading, stdin, sent,
                   visit, tmsg, tobj, access>>

\* tick: with self._animations_lock (acquire)
R_TickLock ==
    /\ rpc = "tick"
    /\ lock = Free
    /\ lock' = Render
    /\ rpc' = "tick_iter"
    /\ UNCHANGED <<now, animVars, matVars, heap, animations, is_loading, stdin, sent,
                   visit, tpc, tmsg, tobj, access>>

\* tick: set(self._animations.values())
R_TickIter ==
    /\ rpc = "tick_iter"
    /\ visit' = {animations[n] : n \in Keys} \ {0}
    /\ access' = [by |-> Render, op |-> "values", held |-> (lock = Render)]
    /\ rpc' = "tick_visit"
    /\ UNCHANGED <<now, animVars, matVars, heap, animations, lock, is_loading, stdin, sent,
                   tpc, tmsg, tobj>>

\* the bitmap of frame k of every animation of the model, one byte per row
FrameData(k) == [r \in 0..(pixels_per_side - 1) |-> k + 1]

\* FrameBuffer.blit(frame, 0, 0) of an 8 x 8 frame: the region at the origin
blit(m, frame) ==
    [m EXCEPT !.buffer = [i \in DOMAIN m.buffer |->
        IF i % m.cols = 0 /\ i \div m.cols < pixels_per_side
        THEN frame[i \div m.cols]
        ELSE m.buffer[i]]]

\* tick: for region in animation.regions: blit(region.get_frame(frame_id));
\* a negative frame_id counts from the end of the list
blit_regions(m, o) ==
    IF o.regions = 0 THEN m
    ELSE blit(m, FrameData(IF o.a.frame_id < 0 THEN o.a.frames + o.a.frame_id
                            ELSE o.a.frame_id))

\* the body of tick's loop raises for object o
visit_raises(o, d1) ==
    /\ o.a.is_playing
    /\ \/ o.regions > 0 /\ get_frame_raises(o.a)
       \/ next_millis_raises(o.a, d1)

\* tick: one animation of the loop: if animation.playing: blit, advance_frame()
R_TickVisit ==
    /\ rpc = "tick_visit"
    /\ \E o \in visit :
          /\ visit' = visit \ {o}
          /\ \E d1 \in HoldDraws(heap[o].a), d2 \in HoldDraws(heap[o].a) :
                /\ ~visit_raises(heap[o], d1)
                /\ heap' = [heap EXCEPT ![o].a =
                               IF heap[o].a.is_playing
                               THEN advance_frame(heap[o].a, now, d1, d2)
                               ELSE heap[o].a]
          /\ matrix' = IF heap[o].a.is_playing THEN blit_regions(matrix, heap[o]) ELSE matrix
    /\ UNCHANGED <<now, animVars, wire, shw, animations, lock, is_loading, stdin, sent, rpc,
                   tpc, tmsg, tobj, access>>

\* tick: the loop is over, the with block releases the lock
R_TickUnlock ==
    /\ rpc = "tick_visit"
    /\ visit = {}
    /\ lock' = Free
    /\ rpc' = "show"
    /\ UNCHANGED <<now, animVars, matVars, heap, animations, is_loading, stdin, sent,
                   visit, tpc, tmsg, tobj, access>>

\* main: display.show(); time.sleep(1/45).  show() is taken as a whole here
\* (its net effect on the Matrix; SpecShow has it statement by statement)
R_ShowSleep ==
    /\ rpc = "show"
    /\ \E dt \in 1..MaxStep :
          /\ now + dt <= MaxSysTime
          /\ now' = now + dt
    /\ rpc' = "poll"
    /\ matrix' = [matrix EXCEPT !.checksum = current_checksum(matrix)]
    /\ UNCHANGED <<animVars, wire, shw, heap, animations, lock, is_loading, stdin, sent,
                   visit, tpc, tmsg, tobj, access>>

\* run: animation_controller.is_loading = True
T_Start(t) ==
    /\ tpc[t] = "start"
    /\ is_loading' = TRUE
    /\ tpc' = [tpc EXCEPT ![t] = "read"]
    /\ UNCHANGED <<now, animVars, matVars, heap, animations, lock, stdin, sent, rpc, visit,
                   tmsg, tobj, access>>

\* run: json.loads(sys.stdin.readline()); blocks while no line is there
T_Read(t) ==
    /\ tpc[t] = "read"
    /\ stdin # <<>>
    /\ tmsg' = [tmsg EXCEPT ![t] = Head(stdin)]
    /\ stdin' = Tail(stdin)
    /\ tpc' = [tpc EXCEPT ![t] = "create"]
    /\ UNCHANGED <<now, animVars, matVars, heap, animations, lock, is_loading, sent, rpc,
                   visit, tobj, access>>

\* what LoadCommand.__init__ constructs for message m
LoadedObj(m) ==
    IF m.animation = ""
    THEN Obj("default", DefaultRecord.regions, DefaultRecord.a)
    ELSE Obj(m.animation, LoadConfigs[m.cfg].regions, LoadConfigs[m.cfg].a)

\* process_command: AnimationCommandFactory.create(data); a ValueError ends
\* the thread (run never reaches is_loading = False; tmsg keeps the message
\* the thread died of); LoadCommand.__init__ constructs the Animation
T_Create(t) ==
    /\ tpc[t] = "create"
    /\ IF Rejected(tmsg[t])
       THEN /\ tpc' = [tpc EXCEPT ![t] = "none"]
            /\ UNCHANGED <<heap, tobj>>
       ELSE /\ tpc' = [tpc EXCEPT ![t] = "execute"]
            /\ IF tmsg[t].command = "load"
               THEN /\ heap' = Append(heap, LoadedObj(tmsg[t]))
                    /\ tobj' = [tobj EXCEPT ![t] = Len(heap) + 1]
               ELSE UNCHANGED <<heap, tobj>>
    /\ UNCHANGED <<now, animVars, matVars, animations, lock, is_loading, stdin, sent, rpc,
                   visit, tmsg, access>>

\* execute: the with self._animations_lock of controller.animations,
\* add_animation or clear_animations is entered
T_Lock(t) ==
    /\ tpc[t] = "execute"
    /\ tmsg[t].command = "clear" => tmsg[t].target = "animations"
    /\ lock = Free
    /\ lock' = Cmd(t)
    /\ tpc' = [tpc EXCEPT ![t] = "locked"]
    /\ UNCHANGED <<now, animVars, matVars, heap, animations, is_loading, stdin, sent, rpc,
                   visit, tmsg, tobj, access>>

\* controller.animations: return self._animations; the with block is left
T_Animations(t) ==
    /\ tpc[t] = "locked"
    /\ tmsg[t].command \in {"play", "stop", "pause", "resume"}
    /\ lock' = Free
    /\ tpc' = [tpc EXCEPT ![t] = "get"]
    /\ UNCHANGED <<now, animVars, matVars, heap, animations, is_loading, stdin, sent, rpc,
                   visit, tmsg, tobj, access>>

\* execute of play/stop/pause/resume: .get(self._animation_name) on the dict
T_Get(t) ==
    /\ tpc[t] = "get"
    /\ tobj' = [tobj EXCEPT ![t] = animations[tmsg[t].animation]]
    /\ access' = [by |-> Cmd(t), op |-> "get", held |-> (lock = Cmd(t))]
    /\ tpc' = [tpc EXCEPT ![t] = "apply"]
    /\ UNCHANGED <<now, animVars, matVars, heap, animations, lock, is_loading, stdin, sent,
                   rpc, visit, tmsg>>

\* an execute that falls back to the first animation when the name is unknown
T_Apply_plays_first(t) ==
    /\ tpc[t] = "apply"
    /\ LET o == IF tobj[t] = 0 THEN 1 ELSE tobj[t]
           c == tmsg[t].command
       IN  heap' = [heap EXCEPT ![o].a =
                            CASE c = "play" -> play(heap[o].a, now)
                              [] c = "stop" -> stop(heap[o].a)
                              [] c = "pause" -> pause(heap[o].a)
                              [] c = "resume" -> resume(heap[o].a, now)]
    /\ tpc' = [tpc EXCEPT ![t] = "finish"]
    /\ UNCHANGED <<now, animVars, matVars, animations, lock, is_loading, stdin, sent, rpc,
                   visit, tmsg, tobj, access>>

\* execute of play/stop/pause/resume: animation.play() / stop() / pause() /
\* resume() if the animation was found, a "not found" print otherwise
T_Apply(t) ==
    /\ tpc[t] = "apply"
    /\ LET o == tobj[t]
           c == tmsg[t].command
       IN  IF o = 0 THEN UNCHANGED heap
           ELSE heap' = [heap EXCEPT ![o].a =
                            CASE c = "play" -> play(heap[o].a, now)
                              [] c = "stop" -> stop(heap[o].a)
                              [] c = "pause" -> pause(heap[o].a)
                              [] c = "resume" -> resume(heap[o].a, now)]
    /\ tpc' = [tpc EXCEPT ![t] = "finish"]
    /\ UNCHANGED <<now, animVars, matVars, animations, lock, is_loading, stdin, sent, rpc,
                   visit, tmsg, tobj, access>>

\* an add_animation that keeps the animation a name is already bound to
T_Add_keeps_first(t) ==
    /\ tpc[t] = "locked"
    /\ tmsg[t].command = "load"
    /\ animations' = IF animations[heap[tobj[t]].name] # 0 THEN animations
                     ELSE [animations EXCEPT ![heap[tobj[t]].name] = tobj[t]]
    /\ access' = [by |-> Cmd(t), op |-> "insert", held |-> (lock = Cmd(t))]
    /\ lock' = Free
    /\ tpc' = [tpc EXCEPT ![t] = "load_play"]
    /\ UNCHANGED <<now, animVars, matVars, heap, is_loading, stdin, sent, rpc, visit,
                   tmsg, tobj>>

\* LoadCommand.execute: controller.add_animation(self._animation)
T_Add(t) ==
    /\ tpc[t] = "locked"
    /\ tmsg[t].command = "load"
    /\ animations' = [animations EXCEPT ![heap[tobj[t]].name] = tobj[t]]
    /\ access' = [by |-> Cmd(t), op |-> "insert", held |-> (lock = Cmd(t))]
    /\ lock' = Free
    /\ tpc' = [tpc EXCEPT ![t] = "load_play"]
    /\ UNCHANGED <<now, animVars, matVars, heap, is_loading, stdin, sent, rpc, visit,
                   tmsg, tobj>>

\* LoadCommand.execute: if self._play_on_load: self._animation.play()
T_LoadPlay(t) ==
    /\ tpc[t] = "load_play"
    /\ heap' = IF tmsg[t].play
               THEN [heap EXCEPT ![tobj[t]].a = play(heap[tobj[t]].a, now)]
               ELSE heap
    /\ tpc' = [tpc EXCEPT ![t] = "finish"]
    /\ UNCHANGED <<now, animVars, matVars, animations, lock, is_loading, stdin, sent, rpc,
                   visit, tmsg, tobj, access>>

\* ClearCommand.execute, target "animations": controller.clear_animations()
T_Clear(t) ==
    /\ tpc[t] = "locked"
    /\ tmsg[t].command = "clear"
    /\ animations' = [n \in Keys |-> 0]
    /\ access' = [by |-> Cmd(t), op |-> "clear", held |-> (lock = Cmd(t))]
    /\ lock' = Free
    /\ tpc' = [tpc EXCEPT ![t] = "finish"]
    /\ UNCHANGED <<now, animVars, matVars, heap, is_loading, stdin, sent, rpc, visit,
                   tmsg, tobj>>

\* run: animation_controller.is_loading = False; the thread ends
T_Finish(t) ==
    /\ tpc[t] = "finish"
    /\ is_loading' = FALSE
    /\ tpc' = [tpc EXCEPT ![t] = "none"]
    /\ tmsg' = [tmsg EXCEPT ![t] = NoMsg]
    /\ tobj' = [tobj EXCEPT ![t] = 0]
    /\ UNCHANGED <<now, animVars, matVars, heap, animations, lock, stdin, sent, rpc, visit,
                   access>>

RenderStep == R_Poll \/ R_TickLock \/ R_TickIter \/ R_TickVisit \/ R_TickUnlock \/ R_ShowSleep

CommandStep(t) ==
    \/ T_Start(t) \/ T_Read(t) \/ T_Create(t) \/ T_Lock(t) \/ T_Animations(t)
    \/ T_Get(t) \/ T_Apply(t) \/ T_Add(t) \/ T_LoadPlay(t) \/ T_Clear(t) \/ T_Finish(t)

NextSys == Send \/ RenderStep \/ \E t \in Threads : CommandStep(t)

SpecSys == InitSys /\ [][NextSys]_vars

(***************************************************************************)
(* Matrix.show() statement by statement, and the writers of the display    *)
(* buffer.  The render loop calls show(); clear_display, test_display and  *)
(* clear_region are called by the command threads.                         *)
(***************************************************************************)

\* largest grid: devices per row, rows of devices
MaxCols == 2
MaxRows == 2
\* number of show() calls, number of buffer writes
MaxShows == 2
MaxWrites == 2

\* the rectangles {x, y, w, h} a clear-region command carries
ClearRegions == {<<0, 0, 0, 0>>, <<4, 0, 4, 8>>, <<0, 4, 0, 4>>}

\* the skip_devices lists of config.json
SkipLists == {{}, {0}}

\* clear_region that passes w and h on as they are
clear_region_keeps_zero(m, x, y, w, h) == fill_rect(m, x, y, w, h, 0)

\* AnimationController.clear_region
clear_region(m, x, y, w, h) ==
    LET w1 == IF w = 0 THEN width(m) ELSE w
        h1 == IF h = 0 THEN height(m) ELSE h
    IN  fill_rect(m, x, y, w1, h1, 0)

\* the state boot.py leaves the display in before main(): Matrix(...),
\* zero(), show(force=True) on a cols x rows grid
InitMatrix ==
    /\ \E c \in 1..MaxCols, r \in 1..MaxRows, rev \in BOOLEAN, skip \in SkipLists :
          matrix = Matrix(c, r, rev, skip)
    /\ wire = <<>>
    /\ shw = NoShow
    /\ baked = NoFrame
    /\ CtlIdle
    /\ now = 0
    /\ anim = Animation(1, 0, 0, <<0, 0>>, FALSE, FALSE)
    /\ played = FALSE
    /\ tracing = FALSE
    /\ trace = <<>>
    /\ lastEvent = NoEvent
    /\ cycleStart = 0

\* show: if not self.changed and not force: return
ShowCall ==
    /\ shw.pc = "idle"
    /\ shw.calls < MaxShows
    /\ \E force \in BOOLEAN :
          shw' = IF ~changed(matrix) /\ ~force
                 THEN [shw EXCEPT !.force = force, !.frames = 0, !.last = "skipped",
                                  !.before = shw.last, !.quiet = TRUE, !.calls = @ + 1]
                 ELSE [shw EXCEPT !.pc = "rows", !.force = force, !.device = 0, !.row = 0,
                                  !.frames = 0, !.calls = @ + 1, !.before = shw.last,
                                  !.sent = [i \in DOMAIN matrix.buffer |-> -1]]
    /\ wire' = <<>>
    /\ UNCHANGED <<now, animVars, ctlVars, matrix>>

\* _show_device: if device_id in self._skip_devices: return
ShowSkip ==
    /\ shw.pc = "rows"
    /\ shw.device < device_count(matrix)
    /\ shw.device \in matrix.skip_devices
    /\ shw' = [shw EXCEPT !.device = @ + 1]
    /\ UNCHANGED <<now, animVars, ctlVars, matrix, wire>>

\* _show_device: one pass of the row loop: read the byte, write the frame
ShowRow ==
    /\ shw.pc = "rows"
    /\ shw.device < device_count(matrix)
    /\ shw.device \notin matrix.skip_devices
    /\ LET idx == get_buffer_index(matrix, shw.device, shw.row)
           last_row == shw.row = pixels_per_side - 1
       IN  /\ wire' = row_frame(matrix, shw.device, shw.row)
           /\ shw' = [shw EXCEPT !.idx = idx,
                                 !.sent = [@ EXCEPT ![idx] = matrix.buffer[idx]],
                                 !.frames = @ + 1,
                                 !.row = IF last_row THEN 0 ELSE @ + 1,
                                 !.device = IF last_row THEN @ + 1 ELSE @]
    /\ UNCHANGED <<now, animVars, ctlVars, matrix>>

\* show: self._checksum = self.current_checksum; return
ShowChecksum ==
    /\ shw.pc = "rows"
    /\ shw.device = device_count(matrix)
    /\ matrix' = [matrix EXCEPT !.checksum = current_checksum(matrix)]
    /\ shw' = [shw EXCEPT !.pc = "idle", !.last = "sent", !.quiet = TRUE]
    /\ UNCHANGED <<now, animVars, ctlVars, wire>>

\* a buffer write: the buffer becomes that of m
Wrote(m) ==
    /\ shw.writes < MaxWrites
    /\ matrix' = m
    /\ shw' = [shw EXCEPT !.quiet = FALSE, !.writes = @ + 1]
    /\ UNCHANGED <<now, animVars, ctlVars, wire>>

\* AnimationController.clear_display
W_ClearDisplay == Wrote(zero(matrix))

\* AnimationController.test_display
W_TestDisplay == Wrote(fill(matrix, 1))

\* ClearCommand.execute, target "region": clear_region for one region
W_ClearRegion == \E r \in ClearRegions : Wrote(clear_region(matrix, r[1], r[2], r[3], r[4]))

ShowStep == ShowCall \/ ShowSkip \/ ShowRow \/ ShowChecksum

BufferWrite == W_ClearDisplay \/ W_TestDisplay \/ W_ClearRegion

\* the buffer is written only between two show() calls (one thread)
NextMatrix == ShowStep \/ (shw.pc = "idle" /\ BufferWrite)

SpecMatrix == InitMatrix /\ [][NextMatrix]_vars

\* the command threads write the buffer while the render loop is in show()
NextShow == ShowStep \/ BufferWrite

SpecShow == InitMatrix /\ [][NextShow]_vars

\* the frames tick() blits: every row 1, and a frame whose last two rows
\* are 0x01 and 0x07 (a multiple of the CRC polynomial x^8 + x^2 + x + 1)
BlitFrames ==
    { FrameData(0),
      [r \in 0..(pixels_per_side - 1) |-> IF r = 6 THEN 1 ELSE IF r = 7 THEN 7 ELSE 0] }

\* AnimationController.tick: blit of a region frame at the origin
W_Blit == \E f \in BlitFrames : Wrote(blit(matrix, f))

\* the render loop alone: tick() blits, the commands write, show() transmits;
\* the buffer is written only between two show() calls
NextBlit == ShowStep \/ (shw.pc = "idle" /\ (BufferWrite \/ W_Blit))

SpecBlit == InitMatrix /\ [][NextBlit]_vars

(***************************************************************************)
(* The command writes of the driver: brightness, shutdown, wake, test.     *)
(***************************************************************************)

\* command constants of the MAX7219
INTENSITY == 10
SHUTDOWN == 12
DISPLAY_TEST == 15

\* number of command calls
MaxCmds == 2

\* the values brightness() is called with
BrightnessValues == {-1, 0, 7, 15, 16}

\* Matrix._write: cs(0), the (command, data) pair once per device, cs(1)
write(m, command, data) ==
    <<CS(0)>> \o [k \in 1..device_count(m) |-> SPI(command, data)] \o <<CS(1)>>

\* brightness without the range check
brightness_unchecked(m, value) ==
    [raised |-> FALSE, traffic |-> write(m, INTENSITY, value)]

\* Matrix.brightness: ValueError for a value outside 0..15, _write otherwise
brightness(m, value) ==
    IF ~(0 <= value /\ value <= 15)
    THEN [raised |-> TRUE, traffic |-> <<>>]
    ELSE [raised |-> FALSE, traffic |-> write(m, INTENSITY, value)]

\* a brightness(v) call; wire collects the traffic of the command calls
Brightness ==
    /\ shw.pc = "idle"
    /\ shw.calls < MaxCmds
    /\ \E v \in BrightnessValues :
          LET res == brightness(matrix, v)
          IN  /\ wire' = wire \o res.traffic
              /\ shw' = [shw EXCEPT !.calls = @ + 1, !.idx = v,
                                    !.before = shw.last,
                                    !.last = IF res.raised THEN "raised" ELSE "brightness"]
    /\ UNCHANGED <<now, animVars, ctlVars, matrix>>

\* shutdown(), wake(), test(enable)
Power ==
    /\ shw.pc = "idle"
    /\ shw.calls < MaxCmds
    /\ \E c \in {<<SHUTDOWN, 0>>, <<SHUTDOWN, 1>>, <<DISPLAY_TEST, 1>>, <<DISPLAY_TEST, 0>>} :
          /\ wire' = wire \o write(matrix, c[1], c[2])
          /\ shw' = [shw EXCEPT !.calls = @ + 1, !.idx = c[2], !.before = shw.last,
                                !.last = IF c[1] = SHUTDOWN THEN "power" ELSE "test"]
    /\ UNCHANGED <<now, animVars, ctlVars, matrix>>

NextDriver == Brightness \/ Power

SpecDriver == InitMatrix /\ [][NextDriver]_vars

(***************************************************************************)
(* The same system under every kind of control message: malformed ones,    *)
(* load records without frames, the clear targets.  tick() may raise,      *)
(* which ends the render loop.                                             *)
(***************************************************************************)

\* number of control messages written to stdin in SpecCtl
MaxCtlMsgs == 1

\* a clear message: its target and its list of regions
ClearMsg(tg, rs) == [Msg("clear", "", tg, FALSE, 0) EXCEPT !.regions = rs]

\* play/stop/pause/resume without a name, for a name that is not registered
\* ("b") and for the baked animation; load records that replace "a", that
\* play one frame back and forth, that are missing; every clear target;
\* no command, an unknown command
CtlMessages ==
    {Msg(c, n, "", FALSE, 0) : c \in {"play", "stop", "pause", "resume"}, n \in {"b", ""}}
    \cup {Msg("play", "a", "", FALSE, 0)}
    \cup {Msg("load", "a", "", pl, 2) : pl \in BOOLEAN}
    \cup {Msg("load", "b", "", TRUE, 3)}
    \cup {Msg("load", "", "", pl, 0) : pl \in BOOLEAN}
    \cup {ClearMsg(tg, <<>>) : tg \in {"", "display", "region", "animations", "bogus"}}
    \cup {ClearMsg("region", <<r>>) : r \in {<<4, 0, 4, 8>>}}
    \cup {Msg("", "", "", FALSE, 0), Msg("bogus", "", "", FALSE, 0)}

\* boot.main before the loop, with two baked animations, added and played:
\* the looping "a" of two frames in one region and the one-shot "c" of two
\* frames without a region
InitCtl ==
    /\ now = 0
    /\ heap = << Obj("a", 1, play(Animation(2, 2, 0, <<0, 0>>, TRUE, FALSE), 0)),
                 Obj("c", 0, play(Animation(2, 2, 0, <<0, 0>>, FALSE, FALSE), 0)) >>
    /\ animations = [n \in Keys |-> CASE n = "a" -> 1 [] n = "c" -> 2 [] OTHER -> 0]
    /\ lock = Free
    /\ is_loading = FALSE
    /\ stdin = <<>>
    /\ sent = 0
    /\ rpc = "poll"
    /\ visit = {}
    /\ tpc = [t \in Threads |-> "none"]
    /\ tmsg = [t \in Threads |-> NoMsg]
    /\ tobj = [t \in Threads |-> 0]
    /\ access = NoAccess
    /\ MatrixIdle
    /\ anim = Animation(1, 0, 0, <<0, 0>>, FALSE, FALSE)
    /\ played = FALSE
    /\ tracing = FALSE
    /\ trace = <<>>
    /\ lastEvent = NoEvent
    /\ cycleStart = 0

\* the caller writes one control message line, well-formed or not, to stdin
SendAny ==
    /\ sent < MaxCtlMsgs
    /\ \E m \in CtlMessages : stdin' = Append(stdin, m)
    /\ sent' = sent + 1
    /\ UNCHANGED <<now, animVars, matVars, heap, animations, lock, is_loading, rpc, visit,
                   tpc, tmsg, tobj, access>>

\* tick: the loop body raises (IndexError of get_frame, ZeroDivisionError of
\* _frame_millis); the with block releases the lock, main ends
R_TickRaise ==
    /\ rpc = "tick_visit"
    /\ \E o \in visit :
          /\ \E d1 \in HoldDraws(heap[o].a) : visit_raises(heap[o], d1)
          /\ matrix' = IF heap[o].regions > 0 /\ get_frame_raises(heap[o].a)
                       THEN matrix
                       ELSE blit_regions(matrix, heap[o])
    /\ visit' = {}
    /\ lock' = Free
    /\ rpc' = "raised"
    /\ UNCHANGED <<now, animVars, wire, shw, heap, animations, is_loading, stdin, sent,
                   tpc, tmsg, tobj, access>>

\* ClearCommand.execute, target "display" (the default): clear_display()
T_ClearDisplay(t) ==
    /\ tpc[t] = "execute"
    /\ tmsg[t].command = "clear"
    /\ tmsg[t].target \in {"", "display"}
    /\ matrix' = zero(matrix)
    /\ tpc' = [tpc EXCEPT ![t] = "finish"]
    /\ UNCHANGED <<now, animVars, wire, shw, heap, animations, lock, is_loading, stdin, sent,
                   rpc, visit, tmsg, tobj, access>>

\* ClearCommand.execute, target "region": "No regions to clear" and return,
\* or clear_region for the next region of the list
T_ClearRegion(t) ==
    /\ tpc[t] = "execute"
    /\ tmsg[t].command = "clear"
    /\ tmsg[t].target = "region"
    /\ LET rs == tmsg[t].regions
       IN  IF rs = <<>>
           THEN /\ tpc' = [tpc EXCEPT ![t] = "finish"]
                /\ UNCHANGED <<matrix, tmsg>>
           ELSE /\ matrix' = clear_region(matrix, rs[1][1], rs[1][2], rs[1][3], rs[1][4])
                /\ tmsg' = [tmsg EXCEPT ![t].regions = Tail(rs)]
                /\ tpc' = [tpc EXCEPT ![t] = IF Tail(rs) = <<>> THEN "finish" ELSE "execute"]
    /\ UNCHANGED <<now, animVars, wire, shw, heap, animations, lock, is_loading, stdin, sent,
                   rpc, visit, tobj, access>>

\* ClearCommand.execute, any other target: "Invalid target" is printed
T_ClearInvalid(t) ==
    /\ tpc[t] = "execute"
    /\ tmsg[t].command = "clear"
    /\ tmsg[t].target \notin {"", "display", "region", "animations"}
    /\ tpc' = [tpc EXCEPT ![t] = "finish"]
    /\ UNCHANGED <<now, animVars, matVars, heap, animations, lock, is_loading, stdin, sent,
                   rpc, visit, tmsg, tobj, access>>

RenderCtlStep == RenderStep \/ R_TickRaise

CommandCtlStep(t) ==
    CommandStep(t) \/ T_ClearDisplay(t) \/ T_ClearRegion(t) \/ T_ClearInvalid(t)

NextCtl == SendAny \/ RenderCtlStep \/ \E t \in Threads : CommandCtlStep(t)

SpecCtl == InitCtl /\ [][NextCtl]_vars

(***************************************************************************)
(* A stop command against the render loop's tick, statement by statement:  *)
(* StopCommand.execute calls animation.stop() on the command thread with   *)
(* no lock held, while tick() blits and calls advance_frame().  Every      *)
(* statement of stop() and of advance_frame() is one step.                 *)
(***************************************************************************)

\* the frame counts of the animation that is stopped
RaceFrames == {2, 3}

\* the control message {"command": "stop", "payload": {"animation": "a"}}
StopMsg == Msg("stop", "a", "", FALSE, 0)

\* the object tick()'s loop is at: the next one of the snapshot
Visiting == CHOOSE o \in visit : \A p \in visit : o <= p

\* boot.main before the loop: one baked animation "a" in one region, added
\* and played, one frame per millisecond
InitRace ==
    /\ now = 0
    /\ \E F \in RaceFrames, loop \in BOOLEAN, reverse \in BOOLEAN :
          heap = << Obj("a", 1, play(Animation(F, IF reverse THEN 2 * F - 1 ELSE F,
                                                0, <<0, 0>>, loop, reverse), 0)) >>
    /\ animations = [n \in Keys |-> IF n = "a" THEN 1 ELSE 0]
    /\ lock = Free
    /\ is_loading = FALSE
    /\ stdin = <<>>
    /\ sent = 0
    /\ rpc = "poll"
    /\ visit = {}
    /\ tpc = [t \in Threads |-> "none"]
    /\ tmsg = [t \in Threads |-> NoMsg]
    /\ tobj = [t \in Threads |-> 0]
    /\ access = NoAccess
    /\ MatrixIdle
    /\ anim = Animation(1, 0, 0, <<0, 0>>, FALSE, FALSE)
    /\ played = FALSE
    /\ tracing = FALSE
    /\ trace = <<>>
    /\ lastEvent = NoEvent
    /\ cycleStart = 0

\* the caller writes the stop message, once
SendStop ==
    /\ sent = 0
    /\ stdin' = Append(stdin, StopMsg)
    /\ sent' = 1
    /\ UNCHANGED <<now, animVars, matVars, heap, animations, lock, is_loading, rpc, visit,
                   tpc, tmsg, tobj, access>>

\* the render loop is at statement pc and moves to statement next, the
\* animation it visits becoming b; the visit is over when next is "tick_visit"
RenderAt(pc, next, b) ==
    /\ rpc = pc
    /\ visit # {}
    /\ heap' = [heap EXCEPT ![Visiting].a = b]
    /\ rpc' = next
    /\ visit' = IF next = "tick_visit" THEN visit \ {Visiting} ELSE visit
    /\ UNCHANGED <<now, animVars, wire, shw, animations, lock, is_loading, stdin, sent,
                   tpc, tmsg, tobj, access>>

\* tick: if animation.playing:
A_Playing ==
    /\ RenderAt("tick_visit", IF heap[Visiting].a.is_playing THEN "blit" ELSE "tick_visit",
                heap[Visiting].a)
    /\ UNCHANGED matrix

\* tick: for region in animation.regions: blit(region.get_frame(frame_id))
A_Blit ==
    /\ RenderAt("blit", "advance", heap[Visiting].a)
    /\ ~get_frame_raises(heap[Visiting].a)
    /\ matrix' = blit_regions(matrix, heap[Visiting])

\* advance_frame: if not self.should_advance: return
A_ShouldAdvance ==
    /\ rpc = "advance"
    /\ \E d1 \in HoldDraws(heap[Visiting].a), d2 \in HoldDraws(heap[Visiting].a) :
          /\ ~next_millis_raises(heap[Visiting].a, d1)
          /\ RenderAt("advance",
                      IF should_advance(heap[Visiting].a, now, d1, d2)
                      THEN "turn" ELSE "tick_visit",
                      heap[Visiting].a)
    /\ UNCHANGED matrix

\* advance_frame: if self._frame_id == len(self.frames) - 1 and self.reverse
\* and not self._is_reversing:
A_Turn ==
    /\ LET a == heap[Visiting].a
       IN  RenderAt("turn",
                    IF a.frame_id = a.frames - 1 /\ a.reverse /\ ~a.is_reversing
                    THEN "turn_reversing" ELSE "is_last_frame",
                    a)
    /\ UNCHANGED matrix

\* advance_frame: self._is_reversing = True
A_TurnReversing ==
    /\ RenderAt("turn_reversing", "turn_frame",
                [heap[Visiting].a EXCEPT !.is_reversing = TRUE])
    /\ UNCHANGED matrix

\* advance_frame: self._frame_id = len(self.frames) - 2; return
A_TurnFrame ==
    /\ RenderAt("turn_frame", "tick_visit",
                [heap[Visiting].a EXCEPT !.frame_id = heap[Visiting].a.frames - 2])
    /\ UNCHANGED matrix

\* advance_frame: is_last_frame = ...; if is_last_frame and not self.loop:
\* elif is_last_frame and self.loop: else:
A_IsLastFrame ==
    /\ LET a == heap[Visiting].a
       IN  RenderAt("is_last_frame",
                    IF is_last_frame(a) /\ ~a.loop THEN "stop"
                    ELSE IF is_last_frame(a) /\ a.loop THEN "loop_reversing"
                    ELSE "step",
                    a)
    /\ UNCHANGED matrix

\* advance_frame: self.stop(); return
A_Stop ==
    /\ RenderAt("stop", "tick_visit", stop(heap[Visiting].a))
    /\ UNCHANGED matrix

\* advance_frame: if self._is_reversing: self._is_reversing = False
A_LoopReversing ==
    /\ RenderAt("loop_reversing", "loop_frame",
                [heap[Visiting].a EXCEPT !.is_reversing = FALSE])
    /\ UNCHANGED matrix

\* advance_frame: self._frame_id = 0
A_LoopFrame ==
    /\ RenderAt("loop_frame", "loop_start", [heap[Visiting].a EXCEPT !.frame_id = 0])
    /\ UNCHANGED matrix

\* advance_frame: self._start_millis = time.time_ns() // 1_000_000; return
A_LoopStart ==
    /\ RenderAt("loop_start", "tick_visit", [heap[Visiting].a EXCEPT !.start_millis = now])
    /\ UNCHANGED matrix

\* advance_frame: self._frame_id += 1 if not self._is_reversing else -1
A_Step ==
    /\ LET a == heap[Visiting].a
       IN  RenderAt("step", "tick_visit",
                    [a EXCEPT !.frame_id = a.frame_id + (IF ~a.is_reversing THEN 1 ELSE -1)])
    /\ UNCHANGED matrix

\* the command thread t is in stop() at statement pc and moves to next, the
\* animation becoming b (nothing happens if the name was not found)
StopAt(t, pc, next, b) ==
    /\ tpc[t] = pc
    /\ tmsg[t].command = "stop"
    /\ heap' = IF tobj[t] = 0 THEN heap ELSE [heap EXCEPT ![tobj[t]].a = b]
    /\ tpc' = [tpc EXCEPT ![t] = IF tobj[t] = 0 THEN "finish" ELSE next]
    /\ UNCHANGED <<now, animVars, matVars, animations, lock, is_loading, stdin, sent, rpc,
                   visit, tmsg, tobj, access>>

\* StopCommand.execute: animation.stop(): self._is_playing = False
S_Playing(t) ==
    StopAt(t, "apply", "stop_frame", [heap[tobj[t]].a EXCEPT !.is_playing = FALSE])

\* stop: self._frame_id = 0
S_Frame(t) ==
    StopAt(t, "stop_frame", "stop_reversing", [heap[tobj[t]].a EXCEPT !.frame_id = 0])

\* stop: self._is_reversing = False
S_Reversing(t) ==
    StopAt(t, "stop_reversing", "stop_start", [heap[tobj[t]].a EXCEPT !.is_reversing = FALSE])

\* stop: self._start_millis = 0
S_Start(t) ==
    StopAt(t, "stop_start", "finish", [heap[tobj[t]].a EXCEPT !.start_millis = 0])

AdvanceStep ==
    \/ A_Playing \/ A_Blit \/ A_ShouldAdvance \/ A_Turn \/ A_TurnReversing \/ A_TurnFrame
    \/ A_IsLastFrame \/ A_Stop \/ A_LoopReversing \/ A_LoopFrame \/ A_LoopStart \/ A_Step

RenderRaceStep ==
    R_Poll \/ R_TickLock \/ R_TickIter \/ AdvanceStep \/ R_TickUnlock \/ R_ShowSleep

StopStep(t) ==
    \/ T_Start(t) \/ T_Read(t) \/ T_Create(t) \/ T_Lock(t) \/ T_Animations(t) \/ T_Get(t)
    \/ S_Playing(t) \/ S_Frame(t) \/ S_Reversing(t) \/ S_Start(t) \/ T_Finish(t)

NextRace == SendStop \/ RenderRaceStep \/ \E t \in Threads : StopStep(t)

SpecRace == InitRace /\ [][NextRace]_vars

(***************************************************************************)
(* Frames: the baking tool packs an image into bytes (scripts/compile.py), *)
(* the device unpacks them into a Frame (rendering.py).                    *)
(***************************************************************************)

\* largest frame: pixels per row, rows
MaxWidth == 4
MaxHeight == 2

\* the pixels of a width x height image, row by row; 1 is a pixel the baking
\* tool takes as lit (opaque black)
Images(w, h) == [0..(w * h - 1) -> {0, 1}]

\* compile.py Frame.set_frame: bit i % 8 of the current byte is pixel i; the
\* byte is appended when i % 8 = 7
set_frame(w, h, pixels) ==
    [k \in 1..((w * h) \div 8) |-> ByteOf([j \in 0..7 |-> pixels[8 * (k - 1) + j]])]

\* bytes per row of a MONO_HLSB FrameBuffer
stride(w) == (w + 7) \div 8

\* FrameBuffer.pixel(x, y) of a MONO_HLSB buffer
pixel(f, x, y) == Bit(f.buffer[y * stride(f.width) + (x \div 8)], 7 - (x % 8))

\* Renderable.__init__ and FrameBuffer.pixel(x, y, c) for every pixel: the
\* frame whose pixel (x, y) is bits[y * width + x]
FrameOf(w, h, bits) ==
    [ width  |-> w,
      height |-> h,
      buffer |-> [i \in 0..(w * h - 1) |->
                    IF i >= stride(w) * h THEN 0
                    ELSE ByteOf([k \in 0..7 |->
                            LET x == (i % stride(w)) * 8 + (7 - k)
                                y == i \div stride(w)
                            IN  IF x < w THEN bits[y * w + x] ELSE 0])] ]

\* rendering.py Frame.load_data: the bits of the bytes, lowest first, are
\* the pixels row by row; pixels[y * width + x] raises IndexError when the
\* bytes hold fewer bits than the frame has pixels
load_data(w, h, data) ==
    LET bits == [i \in 0..(8 * Len(data) - 1) |-> Bit(data[i \div 8 + 1], i % 8)]
    IN  IF w * h > 8 * Len(data)
        THEN [raised |-> TRUE, frame |-> <<>>]
        ELSE [raised |-> FALSE, frame |-> FrameOf(w, h, bits)]

\* an image of the baking tool
InitFrame ==
    /\ \E w \in 1..MaxWidth, h \in 1..MaxHeight :
          \E px \in Images(w, h) :
             baked = [pc |-> "image", width |-> w, height |-> h, pixels |-> px,
                      data |-> <<>>, raised |-> FALSE, frame |-> <<>>]
    /\ matrix = Matrix(1, 1, FALSE, {})
    /\ wire = <<>>
    /\ shw = NoShow
    /\ CtlIdle
    /\ now = 0
    /\ anim = Animation(1, 0, 0, <<0, 0>>, FALSE, FALSE)
    /\ played = FALSE
    /\ tracing = FALSE
    /\ trace = <<>>
    /\ lastEvent = NoEvent
    /\ cycleStart = 0

\* the baking tool: frame.set_frame(image)
SetFrame ==
    /\ baked.pc = "image"
    /\ baked' = [baked EXCEPT !.pc = "packed",
                              !.data = set_frame(baked.width, baked.height, baked.pixels)]
    /\ UNCHANGED <<now, anim, played, tracing, trace, lastEvent, cycleStart, sysVars>>

\* the device: Frame(width, height, id, data), which calls load_data(data)
LoadData ==
    /\ baked.pc = "packed"
    /\ LET res == load_data(baked.width, baked.height, baked.data)
       IN  baked' = [baked EXCEPT !.pc = "loaded", !.raised = res.raised,
                                  !.frame = res.frame]
    /\ UNCHANGED <<now, anim, played, tracing, trace, lastEvent, cycleStart, sysVars>>

NextFrame == SetFrame \/ LoadData

SpecFrame == InitFrame /\ [][NextFrame]_vars

(***************************************************************************)
(* Regions: Animation.__init__ attaches every frame to every region, each  *)
(* region caching its own transformed copy (animation.py, rendering.py).   *)
(* Frames are objects: objs is the store, the lists hold object ids.       *)
(***************************************************************************)

\* largest number of frames of an animation whose regions are built
MaxBaked == 2

\* the images of the frames: one lit pixel in the top left corner, the left
\* column lit
SampleImages(w, h) ==
    { [i \in 0..(w * h - 1) |-> IF i = 0 THEN 1 ELSE 0],
      [i \in 0..(w * h - 1) |-> IF i % w = 0 THEN 1 ELSE 0] }

\* the frame lists of an animation
FrameLists(w, h) ==
    UNION {[1..n -> SampleImages(w, h)] : n \in 1..MaxBaked}

\* Region.__init__: the flags, an empty frame cache
Region(mirror, flip) == [mirror |-> mirror, flip |-> flip, frames |-> <<>>]

\* the region lists of an animation
RegionLists ==
    { <<Region(FALSE, FALSE)>>, <<Region(TRUE, FALSE)>>,
      <<Region(FALSE, TRUE), Region(TRUE, TRUE)>> }

\* the data field of a frame record whose bits are the pixels px row by
\* row, lowest bit first, the last byte padded with 0
DataOf(w, h, px) ==
    [k \in 1..((w * h + 7) \div 8) |->
        ByteOf([j \in 0..7 |-> IF 8 * (k - 1) + j < w * h THEN px[8 * (k - 1) + j] ELSE 0])]

\* Frame.as_copy(): a new Frame of the same size, every pixel copied
as_copy(f) ==
    FrameOf(f.width, f.height,
            [i \in 0..(f.width * f.height - 1) |-> pixel(f, i % f.width, i \div f.width)])

\* Renderable.mirror: in every row pixel x and pixel width - x - 1 are
\* swapped, for x < width // 2
mirror(f) ==
    FrameOf(f.width, f.height,
            [i \in 0..(f.width * f.height - 1) |->
                LET x == i % f.width
                    y == i \div f.width
                    half == f.width \div 2
                IN  IF x < half \/ x >= f.width - half
                    THEN pixel(f, f.width - x - 1, y)
                    ELSE pixel(f, x, y)])

\* Renderable.flip: in every column pixel y and pixel height - y - 1 are
\* swapped, for y < height // 2
flip(f) ==
    FrameOf(f.width, f.height,
            [i \in 0..(f.width * f.height - 1) |->
                LET x == i % f.width
                    y == i \div f.width
                    half == f.height \div 2
                IN  IF y < half \/ y >= f.height - half
                    THEN pixel(f, x, f.height - y - 1)
                    ELSE pixel(f, x, y)])

\* the region's transform of frame f
transformed(region, f) ==
    LET m == IF region.mirror THEN mirror(f) ELSE f
    IN  IF region.flip THEN flip(m) ELSE m

\* add_frame that transforms the frame itself and caches it
add_frame_in_place(b, r, fid) ==
    [b EXCEPT !.objs[fid] = transformed(b.regions[r], b.objs[fid]),
              !.regions[r].frames = Append(@, fid)]

\* Region.add_frame: copy = frame.as_copy(); mirror and flip the copy;
\* self._frames.append(copy)
add_frame(b, r, fid) ==
    [b EXCEPT !.objs = Append(@, transformed(b.regions[r], as_copy(b.objs[fid]))),
              !.regions[r].frames = Append(@, Len(b.objs) + 1)]

\* Animation.from_json has built the frames and the regions, __init__ is
\* about to attach the first frame to the first region
InitRegion ==
    /\ \E w \in {MaxWidth - 1, MaxWidth} :
          \E imgs \in FrameLists(w, MaxHeight), regs \in RegionLists :
             baked = [pc |-> "attach", width |-> w, height |-> MaxHeight,
                      images |-> imgs,
                      objs |-> [k \in 1..Len(imgs) |->
                                  load_data(w, MaxHeight, DataOf(w, MaxHeight, imgs[k])).frame],
                      frames |-> [k \in 1..Len(imgs) |-> k],
                      regions |-> regs, r |-> 1, f |-> 1]
    /\ anim = Animation(Len(baked.frames), 2 * Len(baked.frames), 0, <<0, 0>>, TRUE, FALSE)
    /\ now = 0
    /\ played = FALSE
    /\ tracing = FALSE
    /\ trace = <<>>
    /\ lastEvent = NoEvent
    /\ cycleStart = 0
    /\ matrix = Matrix(1, 1, FALSE, {})
    /\ wire = <<>>
    /\ shw = NoShow
    /\ CtlIdle

\* Animation.__init__: one pass of the inner loop, region.add_frame(frame)
AddFrame ==
    /\ baked.pc = "attach"
    /\ LET b == add_frame(baked, baked.r, baked.frames[baked.f])
           last_frame == baked.f = Len(baked.frames)
           last_region == baked.r = Len(baked.regions)
       IN  baked' = [b EXCEPT !.f = IF last_frame THEN 1 ELSE @ + 1,
                              !.r = IF last_frame /\ ~last_region THEN @ + 1 ELSE @,
                              !.pc = IF last_frame /\ last_region THEN "built" ELSE "attach"]
    /\ UNCHANGED <<now, anim, played, tracing, trace, lastEvent, cycleStart, sysVars>>

\* the constructed animation is played, paused, resumed, stopped and ticked
Playback == baked.pc = "built" /\ NextAnim

NextRegion == AddFrame \/ Playback

SpecRegion == InitRegion /\ [][NextRegion]_vars

(***************************************************************************)
(* Properties of the playback state machine.                               *)
(***************************************************************************)

\* the hold resolves to 0: no fixed hold and no randomHold range
NoHold(a) == a.hold_millis = 0 /\ HoldDraws(a) = {0}

\* Stopped: not playing, at frame 0, direction forward
Stopped(a) == ~a.is_playing /\ a.frame_id = 0 /\ ~a.is_reversing

\* the state the animation was in right before the advance lastEvent describes
BeforeEvent == [anim EXCEPT !.is_playing = TRUE, !.frame_id = lastEvent.from,
                            !.is_reversing = lastEvent.reversing]

\* the elapsed time at which a leaves its current frame when its hold is 0
NoHoldThreshold(a) ==
    next_millis([a EXCEPT !.hold_millis = 0, !.random_hold = <<0, 0>>], 0, 0)

\* the frame sequence of one round trip: 0, 1, ..., F-1, F-2, ..., 1, 0
RoundTrip(F) == [k \in 1..(2 * F - 1) |-> IF k <= F THEN k - 1 ELSE 2 * F - 1 - k]

\* C1: in every reachable state of an Animation with F >= 1 frames, whatever
\* its flags and hold and whatever play/pause/resume/stop calls and ticks came
\* before, 0 <= frameIndex < F.
C1_FrameIndexInRange == 0 <= anim.frame_id /\ anim.frame_id < anim.frames

\* C2: reverse = true, loop = false, hold = 0, left alone after play(): the
\* frames entered are 0, 1, ..., F-1, F-2, ..., 1, 0 in this order and nothing
\* else, the k-th of them (k = 0..2F-2) no earlier than k * (D div (2F-1)) ms
\* after play(), and the animation is Stopped only after the whole sequence.
C2_ReverseOneShotSchedule ==
    (played /\ anim.reverse /\ ~anim.loop /\ NoHold(anim)) =>
        /\ Len(trace) <= 2 * anim.frames - 1
        /\ \A k \in 1..Len(trace) : trace[k] = RoundTrip(anim.frames)[k]
        /\ lastEvent.kind \in {"step", "turn"} =>
              lastEvent.cycle >= (Len(trace) - 1) * frame_millis(anim)
        /\ lastEvent.kind = "stop" => Len(trace) = 2 * anim.frames - 1

\* C3: reverse = true, hold = 0: the time from play() (or from the previous
\* loop restart) to the end of the round trip (the transition to Stopped, or
\* the loop restart) is the duration D, give or take one scheduling tick, for
\* loop = false and for loop = true.
C3_RoundTripTakesDuration ==
    (played /\ anim.reverse /\ NoHold(anim) /\ lastEvent.kind \in {"stop", "loop"}) =>
        /\ lastEvent.cycle >= anim.duration_millis - MaxStep
        /\ lastEvent.cycle <= anim.duration_millis + MaxStep

C4Case == played /\ ~anim.reverse /\ anim.loop

\* C4: reverse = false, loop = true, left alone after play(): every advance
\* takes frame i to (i + 1) mod F, so the frames entered are 0, 1, ..., F-1,
\* 0, 1, ... with period F, and the animation never stops playing.
C4_ForwardLoopIsPeriodic ==
    /\ [](C4Case => /\ anim.is_playing
                    /\ \A k \in 1..Len(trace) : trace[k] = (k - 1) % anim.frames)
    /\ [][C4Case => /\ anim'.is_playing
                    /\ anim'.frame_id \in {anim.frame_id, (anim.frame_id + 1) % anim.frames}
                    /\ lastEvent'.kind \in {"none", "step", "loop"}]_vars

\* C4's case: a forward loop of at least two frames has wrapped around to 0
C4_Witness ==
    /\ C4Case /\ anim.frames >= 2
    /\ lastEvent.kind = "loop" /\ lastEvent.from = anim.frames - 1
    /\ anim.frame_id = 0 /\ Len(trace) > anim.frames

C5Case ==
    /\ played /\ ~anim.loop /\ ~anim.reverse /\ NoHold(anim)
    /\ anim.duration_millis >= anim.frames

\* C5: loop = false, reverse = false, hold = 0, D >= F, left alone after
\* play() while the render loop keeps ticking: the frames 0..F-1 are shown
\* once in order, the animation is eventually Stopped, and it stays Stopped.
C5_OneShotStops ==
    /\ (C5Case ~> (Stopped(anim) /\ lastEvent.kind = "stop"))
    /\ [][(C5Case /\ Stopped(anim)) => Stopped(anim')]_vars
    /\ []((C5Case /\ lastEvent.kind = "stop") =>
            /\ Stopped(anim)
            /\ Len(trace) = anim.frames
            /\ \A k \in 1..Len(trace) : trace[k] = k - 1)

\* C5's case: a one-shot animation of several frames has run out and stopped
C5_Witness ==
    /\ C5Case /\ anim.frames >= 2
    /\ lastEvent.kind = "stop" /\ lastEvent.from = anim.frames - 1
    /\ Stopped(anim)

\* C6: with a hold h > 0 the animation leaves a terminal frame (F-1 going
\* forward, 0 going backward) no earlier than it would with hold = 0.
C6_HoldOnlyDelays ==
    (/\ played /\ lastEvent.kind # "none"
     /\ anim.hold_millis > 0
     /\ is_last_frame(BeforeEvent)) =>
        lastEvent.elapsed >= NoHoldThreshold(BeforeEvent)

\* C7: at a frame that is not the terminal frame of the current direction the
\* elapsed-time threshold of the next advance is the same for every hold and
\* randomHold, and an advance away from such a frame waits for that threshold.
C7_HoldNeverDelaysIntermediate ==
    /\ (anim.is_playing /\ ~is_last_frame(anim)) =>
          \A h \in Holds, r \in RandomHolds :
             LET a == [anim EXCEPT !.hold_millis = h, !.random_hold = r]
             IN  \A d1 \in HoldDraws(a), d2 \in HoldDraws(a) :
                    next_millis(a, d1, d2) = NoHoldThreshold(anim)
    /\ (played /\ lastEvent.kind = "step") =>
          /\ ~is_last_frame(BeforeEvent)
          /\ lastEvent.elapsed >= NoHoldThreshold(BeforeEvent)

\* C7's case: under a positive hold an intermediate frame has been left and
\* the animation is at an intermediate frame again
C7_Witness ==
    /\ played /\ anim.hold_millis > 0
    /\ lastEvent.kind = "step"
    /\ anim.is_playing /\ ~is_last_frame(anim)

\* C25: pause() followed later by resume() preserves elapsed playback time:
\* pause() leaves frameIndex unchanged, and after resume() the elapsed time
\* is the elapsed time the animation had when pause() was called (plus the
\* time that has passed since resume()), so the time spent paused does not
\* count towards the schedule of the next frame advance.
C25_PauseResumeKeepsElapsed ==
    /\ lastEvent.kind = "pause" => (~anim.is_playing /\ anim.frame_id = lastEvent.from)
    /\ lastEvent.kind = "resume" =>
          /\ anim.is_playing /\ anim.frame_id = lastEvent.from
          /\ current_millis(anim, now) = lastEvent.elapsed + (now - lastEvent.cycle)

\* C26: a zero-duration animation never auto-advances: for duration 0 (any
\* frame count F >= 1, any hold, loop and reverse), after play() no tick
\* changes frameIndex, direction or isPlaying: no advance ever happens and
\* the animation stays playing at frame 0, forward.
C26_ZeroDurationNeverAdvances ==
    (played /\ anim.duration_millis = 0) =>
        /\ lastEvent.kind = "none"
        /\ anim.is_playing /\ anim.frame_id = 0 /\ ~anim.is_reversing

\* the animation is playing at the terminal frame of its direction and the
\* last tick found it there too and did not advance
StaysAtTerminal ==
    /\ anim.is_playing /\ is_last_frame(anim)
    /\ lastEvent.kind = "wait"
    /\ lastEvent.from = anim.frame_id /\ lastEvent.reversing = anim.is_reversing

\* C27: with a fixed hold of 0 and a randomHold range with end > start the
\* hold of a stay at a terminal frame is drawn once: every tick of the stay
\* compares the elapsed time with the same threshold; a non-zero fixed hold
\* is always used instead of the random range.
C27_HoldDrawnOncePerStay ==
    [][(StaysAtTerminal /\ lastEvent'.kind # "none") =>
          /\ lastEvent'.elapsed = lastEvent.elapsed
          /\ anim.hold_millis > 0 => lastEvent'.elapsed = anim.hold_millis]_vars

\* C28: in every reachable state of an Animation isReversing implies
\* reverse = true: an animation constructed with reverse = false is never in
\* the Playing-reverse direction, after any sequence of play/pause/resume/
\* stop calls and ticks.
C28_ReversingImpliesReverse == anim.is_reversing => anim.reverse

\* C28's case: an animation of three frames has turned round at its last
\* frame and is playing backwards
C28_Witness ==
    /\ anim.frames = 3 /\ anim.is_playing /\ anim.is_reversing
    /\ anim.frame_id = 1 /\ lastEvent.kind = "turn"

\* a tick in which advance_frame acts: time passes and the animation changes
Advances == now' # now /\ anim' # anim

\* the animation is at the last frame of its current direction
AtTerminal == anim.loop /\ is_last_frame(anim)

\* the state a loop restart leaves: frame 0, forward, playing, timed from now
Restarted ==
    /\ anim'.frame_id = 0
    /\ ~anim'.is_reversing
    /\ anim'.is_playing
    /\ anim'.start_millis = now'
    /\ current_millis(anim', now') = 0

\* C30 as the spec states it: whenever a looping animation's advance is due
\* at the terminal frame of its current direction, the advance sets the
\* frame index to 0, the direction to forward and the start time to now.
C30_AsStated == [][(Advances /\ AtTerminal) => Restarted]_vars

\* C30: when a looping animation's advance is due at the terminal frame of
\* its current direction, and the animation is not a reversing one still
\* going forward (there the advance turns round instead), the advance sets
\* the frame index to 0, the direction to forward (also when it had been
\* reversing) and the start time to now; after a restart the animation is
\* at frame 0 going forward until it advances again.
C30_LoopRestartsForward ==
    /\ [][(Advances /\ AtTerminal /\ ~(anim.reverse /\ ~anim.is_reversing)) => Restarted]_vars
    /\ [][(Advances /\ AtTerminal /\ anim.reverse /\ ~anim.is_reversing) =>
             (anim'.is_reversing /\ anim'.frame_id = anim.frame_id - 1
              /\ anim'.start_millis = anim.start_millis)]_vars
    /\ [](lastEvent.kind = "loop" =>
             (anim.frame_id = 0 /\ ~anim.is_reversing /\ anim.is_playing
              /\ anim.start_millis <= now))

\* C30's case: a reversing looping animation of three frames has come back
\* to frame 0 and has just restarted, forward, timed from now
C30_Witness ==
    /\ anim.frames = 3 /\ anim.reverse /\ anim.loop
    /\ lastEvent.kind = "loop" /\ lastEvent.reversing /\ lastEvent.from = 0
    /\ anim.frame_id = 0 /\ ~anim.is_reversing /\ anim.start_millis = now

(***************************************************************************)
(* Properties of the render loop and the command threads.                  *)
(***************************************************************************)

\* the mutable playback state of an Animation
PlaybackState(a) == <<a.frame_id, a.is_playing, a.is_reversing, a.start_millis>>

\* the step is one of the render loop's (each of them moves rpc or visit,
\* no step of a command thread does)
RenderLoopActed == rpc' # rpc \/ visit' # visit

\* the command threads that have been spawned and have not ended
LiveThreads == {t \in Threads : tpc[t] # "none"}

\* C8: the playback state (frameIndex, isPlaying, isReversing, startTimestamp)
\* of an Animation object is written only by the render-loop thread: every
\* step that changes it is a step of the render loop, none is a step of a
\* command thread.
C8_OnlyRenderLoopWritesPlayback ==
    [][(\E o \in 1..Len(heap) :
           PlaybackState(heap'[o].a) # PlaybackState(heap[o].a)) => RenderLoopActed]_vars

\* C9: every read of the name -> Animation mapping (the iteration of tick,
\* the lookup by name of a command) and every write to it (insert, clear) is
\* made by a thread that holds the registry lock at that moment.
C9_MappingAccessedUnderLock == access.op # "none" => access.held

\* C10: under every interleaving at most one command thread exists at any
\* time: the render loop spawns none while an earlier one has not ended.
C10_AtMostOneCommandThread == Cardinality(LiveThreads) <= 1

\* command thread t has ended with the ValueError of a rejected message
Raised(t) == tpc[t] = "none" /\ tmsg[t] # NoMsg

\* C11: a rejected command affects only its own task: once a control message
\* has been rejected (no command, an unrecognized command, a missing payload
\* field) and its task has ended, a valid message waiting on stdin can still
\* be picked up and applied.  The render loop starts a task only while
\* is_loading is False, and only a running task sets it back to False, so
\* with no task left the flag must be False for the message to be picked up.
C11_RejectionIsLocal ==
    (/\ \E t \in Threads : Raised(t)
     /\ LiveThreads = {}
     /\ stdin # <<>> /\ ~Rejected(Head(stdin))) => ~is_loading

\* C12: no control message can terminate the render loop: whatever messages
\* were sent (any command, any payload, load records with any number of
\* frames >= 0 and any flags, with or without play), tick() never raises.
C12_RenderLoopNeverRaises == rpc # "raised"

\* the message lacks a required field or names an unrecognized command
Malformed(m) ==
    \/ m.command = ""
    \/ m.command \notin {"none", "test", "play", "stop", "pause", "resume", "load", "clear"}
    \/ m.command \in {"play", "stop", "pause", "resume", "load"} /\ m.animation = ""
    \/ m.command = "clear" /\ m.target = ""

\* command thread t has a command object and is executing it
Executing(t) == tpc[t] \in {"execute", "locked", "get", "apply", "load_play", "finish"}

\* the registry, the playback state of every Animation object and the
\* display buffer are the same after the step as before it
NothingChanges ==
    /\ animations' = animations
    /\ \A o \in 1..Len(heap) : PlaybackState(heap'[o].a) = PlaybackState(heap[o].a)
    /\ matrix'.buffer = matrix.buffer

\* C13: a control message that lacks a required field (no command;
\* play/stop/pause/resume or load without animation; clear without target)
\* or names an unrecognized command fails its command task (no command is
\* executed for it) and changes nothing: no step of its thread changes the
\* registry, the playback state of an animation or the display buffer.
C13_MalformedChangesNothing ==
    /\ [](\A t \in Threads : Malformed(tmsg[t]) => ~Executing(t))
    /\ [][\A t \in Threads :
             (Malformed(tmsg[t]) /\ tpc'[t] # tpc[t]) => NothingChanges]_vars

\* command thread t executes play/stop/pause/resume for a name that is not
\* in the registry (before the lookup), or whose lookup found nothing
UnknownName(t) ==
    /\ tmsg[t].command \in {"play", "stop", "pause", "resume"}
    /\ \/ tpc[t] \in {"execute", "locked", "get"} /\ animations[tmsg[t].animation] = 0
       \/ tpc[t] \in {"apply", "finish"} /\ tobj[t] = 0

\* command thread t executes a clear of target region with no region
EmptyRegionClear(t) ==
    /\ tpc[t] = "execute"
    /\ tmsg[t].command = "clear" /\ tmsg[t].target = "region" /\ tmsg[t].regions = <<>>

\* C14: a play, stop, pause or resume command naming an animation that is
\* not in the registry, and a clear command with target region and an empty
\* region list, is a non-fatal no-op: every step of its task leaves the
\* registry, every animation's playback state and the display buffer
\* unchanged, and the task runs to its end without raising.
C14_UnknownTargetIsNoOp ==
    [][\A t \in Threads :
          ((UnknownName(t) \/ EmptyRegionClear(t)) /\ tpc'[t] # tpc[t]) =>
              /\ NothingChanges
              /\ tpc'[t] # "none" \/ (tpc[t] = "finish" /\ tmsg'[t] = NoMsg)]_vars

\* C14's case: the lookup of a play/stop/pause/resume command found nothing
\* and the command has been executed, while the two baked animations are
\* registered, one of them is playing and the buffer shows a frame
C14_Witness ==
    /\ \E t \in Threads : UnknownName(t) /\ tpc[t] = "finish"
    /\ animations["a"] = 1 /\ animations["c"] = 2
    /\ heap[1].a.is_playing
    /\ matrix.buffer # zero(matrix).buffer

\* command thread t is about to add an animation under a name the registry
\* already binds to another animation
Replaces(t) ==
    /\ tpc[t] = "locked" /\ tmsg[t].command = "load"
    /\ animations[heap[tobj[t]].name] \notin {0, tobj[t]}

\* C15: adding (loading) an animation whose name is already in the registry
\* leaves that name bound to the newly added animation and to nothing else,
\* every entry under a different name bound to the same animation as
\* before, and the playback state of every animation unchanged.
C15_LoadReplacesByName ==
    [][\A t \in Threads :
          (Replaces(t) /\ tpc'[t] # tpc[t]) =>
              /\ animations'[heap[tobj[t]].name] = tobj[t]
              /\ heap'[tobj[t]].name = LoadedObj(tmsg[t]).name
              /\ \A n \in Keys \ {heap[tobj[t]].name} : animations'[n] = animations[n]
              /\ \A o \in 1..Len(heap) : PlaybackState(heap'[o].a) = PlaybackState(heap[o].a)]_vars

\* C15's case: a load has replaced the baked animation "a" by a new object
\* while the baked animation "c" is still registered
C15_Witness ==
    \E t \in Threads :
        /\ tpc[t] = "load_play" /\ tmsg[t].animation = "a"
        /\ animations["a"] = tobj[t] /\ tobj[t] > 2
        /\ animations["c"] = 2

\* the advance took the animation one frame on or back, or to frame 0
AtMostOneStep(a, b) ==
    b.frame_id \in {a.frame_id - 1, a.frame_id, a.frame_id + 1, 0}

\* the tick visits object o in this step: it leaves the snapshot (when the
\* loop body raises, o is the object it raises for)
Visited(o) ==
    /\ rpc = "tick_visit" /\ o \in visit /\ o \notin visit'
    /\ rpc' = "raised" => \E d1 \in HoldDraws(heap[o].a) : visit_raises(heap[o], d1)

\* advance_frame has been called on object o: it has acted, or it has raised
\* and left the animation as it was
Advanced(o) ==
    \E d1 \in HoldDraws(heap[o].a), d2 \in HoldDraws(heap[o].a) :
       IF next_millis_raises(heap[o].a, d1)
       THEN heap' = heap
       ELSE heap' = [heap EXCEPT ![o].a = advance_frame(heap[o].a, now, d1, d2)]

\* C31: in one tick(), every animation that is playing when it is visited
\* has the cached frame at its frame index blitted for every region and is
\* then advanced, by at most one step; an animation that is not playing is
\* neither blitted nor advanced; no object is visited twice in a tick.
C31_TickBlitsThenAdvances ==
    /\ [][(rpc = "tick_visit" /\ visit' # visit) =>
            \E o \in visit :
               /\ Visited(o)
               /\ IF heap[o].a.is_playing
                  THEN /\ heap[o].regions > 0 => ~get_frame_raises(heap[o].a)
                       /\ matrix' = blit_regions(matrix, heap[o])
                       /\ Advanced(o)
                       /\ AtMostOneStep(heap[o].a, heap'[o].a)
                  ELSE matrix' = matrix /\ heap' = heap]_vars
    /\ [][rpc = "tick_visit" => visit' \subseteq visit]_vars

\* the stop command has completed: the message was read and no command
\* thread is past reading (a thread spawned for nothing waits for a line)
StopCompleted ==
    /\ sent = 1 /\ stdin = <<>>
    /\ \A t \in Threads : tpc[t] \in {"none", "start", "read"}

\* C32: under every interleaving of a stop command task with the render
\* loop's tick, once the stop command for an animation has completed (no
\* play or resume follows) the animation is Stopped: not playing, at frame
\* 0, forward, in every later state.
C32_StoppedAfterStop == StopCompleted => Stopped(heap[1].a)

(***************************************************************************)
(* Properties of the Matrix driver.                                        *)
(***************************************************************************)

\* the step is the return of a show() call that transmitted nothing
ReturnsSilently ==
    /\ shw'.pc = "idle" /\ shw'.last = "skipped"
    /\ shw'.frames = 0 /\ wire' = <<>>
    /\ matrix' = matrix

\* C16: show() called twice in a row without force and with no buffer write
\* in between transmits at most once: the second call toggles no chip select
\* and writes nothing to the bus.
C16_SecondShowIsSilent ==
    [][(/\ shw.pc = "idle" /\ shw.last # "none" /\ ~shw.force /\ shw.quiet
        /\ shw'.calls = shw.calls + 1 /\ ~shw'.force) => ReturnsSilently]_vars

\* C16's case: an unforced show() has transmitted a changed buffer and the
\* unforced show() right after it has returned
C16_Witness ==
    /\ shw.pc = "idle" /\ shw.calls >= 2 /\ shw.quiet /\ ~shw.force
    /\ shw.before = "sent" /\ shw.last = "skipped"
    /\ \E i \in DOMAIN matrix.buffer : matrix.buffer[i] # 0

\* C17: after a show() that transmitted has returned, the cached checksum is
\* the checksum of the buffer contents that show() transmitted, under every
\* interleaving of show() with the command threads' buffer writes.
C17_ChecksumIsOfTransmitted ==
    (shw.pc = "idle" /\ shw.last = "sent" /\ matrix.skip_devices = {}) =>
        matrix.checksum = crc82(shw.sent)

\* the (device, row) pairs of the grid and the byte indices of its buffer
DeviceRows(m) == (0..(device_count(m) - 1)) \X (0..(pixels_per_side - 1))
BufferIndices(m) == 0..(device_count(m) * pixels_per_side - 1)

\* C18: for a grid of cols >= 1 by rows >= 1 devices and either reverseIds,
\* (device, row) -> _get_buffer_index(device, row) is a bijection from
\* [0, cols*rows) x [0, 8) onto [0, cols*rows*8): its image is the whole
\* index range, and the two sets have the same size, so no two pairs share
\* an index.
C18_BufferIndexIsBijection ==
    /\ {get_buffer_index(matrix, p[1], p[2]) : p \in DeviceRows(matrix)} = BufferIndices(matrix)
    /\ Cardinality(DeviceRows(matrix)) = Cardinality(BufferIndices(matrix))

\* C18's case: on a reversed 2 x 2 grid a show() has read a byte for every
\* (device, row) and has left no byte of the buffer out
C18_Witness ==
    /\ matrix.cols = 2 /\ matrix.rows = 2 /\ matrix.reverse_ids
    /\ shw.pc = "idle" /\ shw.last = "sent" /\ shw.frames = 4 * pixels_per_side
    /\ \A i \in DOMAIN shw.sent : shw.sent[i] # -1

\* the index as the specification writes it
IndexFormula(cols, rows, reverse_ids, d, r) ==
    LET d1 == IF reverse_ids THEN cols * rows - d - 1 ELSE d
    IN  ((d1 \div cols) * 8 + r) * cols + (d1 % cols)

\* C19: _get_buffer_index(d, r) = ((d' div cols) * 8 + r) * cols + (d' mod cols)
\* with d' = d, or deviceCount - d - 1 if reverseIds; on a 3 x 3 grid without
\* reversal device 4, row 2 is at index 31.
C19_BufferIndexFormula ==
    /\ \A p \in DeviceRows(matrix) :
          get_buffer_index(matrix, p[1], p[2]) =
              IndexFormula(matrix.cols, matrix.rows, matrix.reverse_ids, p[1], p[2])
    /\ shw.frames > 0 => shw.idx \in BufferIndices(matrix)
    /\ get_buffer_index(Matrix(3, 3, FALSE, {}), 4, 2) = 31

\* C19's case: show() has read the byte of device 1, row 2 of a reversed
\* 2 x 2 grid (d' = 2: second device row, first column)
C19_Witness ==
    /\ matrix.cols = 2 /\ matrix.rows = 2 /\ matrix.reverse_ids
    /\ shw.pc = "rows" /\ shw.device = 1 /\ shw.row = 3
    /\ shw.idx = 20

\* frame f is the row write of row r of device d: chip select asserted once
\* and released once around N pairs, N-d-1 no-op pairs, the row's pair, d
\* no-op pairs
IsRowFrame(f, m, d, r) ==
    LET N == device_count(m)
    IN  /\ Len(f) = N + 2
        /\ f[1] = CS(0) /\ f[N + 2] = CS(1)
        /\ \A k \in 2..(N + 1) : f[k][1] = "spi"
        /\ \A k \in 2..(N - d) : f[k] = SPI(NOOP, 0)
        /\ f[N - d + 1] = SPI(DIGIT_0 + r, m.buffer[get_buffer_index(m, d, r)])
        /\ \A k \in (N - d + 2)..(N + 1) : f[k] = SPI(NOOP, 0)
        /\ Cardinality({k \in 1..Len(f) : f[k][1] = "spi" /\ f[k][2] # NOOP}) <= 1

\* C20: every row write of show() for device d of a chain of N devices is
\* one chip-select frame that shifts exactly N command/data pairs: N-d-1
\* no-op pairs, the (row command, data byte) pair, d no-op pairs; no frame
\* carries more than one pair that is not a no-op.
C20_RowWriteIsOneFrame ==
    [][shw'.frames = shw.frames + 1 => IsRowFrame(wire', matrix, shw.device, shw.row)]_vars

\* C20's case: the row write of device 2 of 4 has gone out, one no-op pair
\* before its pair and two after
C20_Witness ==
    /\ device_count(matrix) = 4 /\ shw.frames > 0
    /\ Len(wire) = 6 /\ wire[3][2] # NOOP

\* the matrix with an empty skip list
Unskipped(m) == [m EXCEPT !.skip_devices = {}]

\* the devices show() transmits to
ShownDevices(m) == (0..(device_count(m) - 1)) \ m.skip_devices

\* C21: a show() that transmits issues exactly one row-write frame for each
\* pair (device, row) with device not in skipDevices and row in 0..7 and none
\* for a device in skipDevices: every row write is the frame of a device that
\* is not skipped, read at the buffer index the device has with an empty
\* skip list, and when show() returns the number of frames is 8 per shown
\* device and the bytes read are those of the shown devices, each once.
C21_SkippedDevicesNeverWritten ==
    /\ [][shw'.frames = shw.frames + 1 =>
            /\ shw.device \notin matrix.skip_devices
            /\ IsRowFrame(wire', Unskipped(matrix), shw.device, shw.row)
            /\ shw'.idx = get_buffer_index(Unskipped(matrix), shw.device, shw.row)
            /\ shw.sent[shw'.idx] = -1]_vars
    /\ []((shw.pc = "idle" /\ shw.last = "sent") =>
            /\ shw.frames = pixels_per_side * Cardinality(ShownDevices(matrix))
            /\ {i \in DOMAIN shw.sent : shw.sent[i] # -1} =
                  {get_buffer_index(Unskipped(matrix), p[1], p[2]) :
                      p \in ShownDevices(matrix) \X (0..(pixels_per_side - 1))})

\* C21's case: on a 2 x 2 grid that skips device 0 a show() has transmitted
\* and returned
C21_Witness ==
    /\ device_count(matrix) = 4 /\ matrix.skip_devices = {0}
    /\ shw.pc = "idle" /\ shw.last = "sent"
    /\ shw.frames = 3 * pixels_per_side

\* C22: brightness(v) with v outside 0..15 is rejected before any
\* transmission: no chip-select change, no bus write, the driver state is
\* unchanged; brightness(v) with 0 <= v <= 15 issues exactly one chip-select
\* frame carrying the intensity command with data v once per device.
C22_BrightnessRange ==
    [][(shw'.calls = shw.calls + 1 /\ shw'.last \in {"raised", "brightness"}) =>
          LET v == shw'.idx
              N == device_count(matrix)
              f == SubSeq(wire', Len(wire) + 1, Len(wire'))
          IN  /\ matrix' = matrix
              /\ SubSeq(wire', 1, Len(wire)) = wire
              /\ shw'.last = "raised" <=> (v < 0 \/ v > 15)
              /\ shw'.last = "raised" => f = <<>>
              /\ shw'.last = "brightness" =>
                    /\ Len(f) = N + 2
                    /\ f[1] = CS(0) /\ f[N + 2] = CS(1)
                    /\ \A k \in 2..(N + 1) : f[k] = SPI(INTENSITY, v)]_vars

\* C22's case: on a chain of four devices brightness(16) has been rejected
\* after brightness(15) went out
C22_Witness ==
    /\ device_count(matrix) = 4
    /\ shw.before = "brightness" /\ shw.last = "raised" /\ shw.idx = 16
    /\ Len(wire) = 6 /\ wire[2] = SPI(INTENSITY, 15)

\* FrameBuffer.pixel(x, y) of the display buffer
PixelAt(m, x, y) == Bit(m.buffer[y * m.cols + (x \div 8)], 7 - (x % 8))

\* pixel (px, py) lies in the rectangle {x, y, w, h}, w = 0 standing for the
\* display width and h = 0 for the display height
InRegion(m, r, px, py) ==
    LET w == IF r[3] = 0 THEN width(m) ELSE r[3]
        h == IF r[4] = 0 THEN height(m) ELSE r[4]
    IN  r[1] <= px /\ px < r[1] + w /\ r[2] <= py /\ py < r[2] + h

\* m2 is m with exactly the pixels of the rectangle r set to 0
ExactlyCleared(m, m2, r) ==
    /\ DOMAIN m2.buffer = DOMAIN m.buffer
    /\ \A px \in 0..(width(m) - 1), py \in 0..(height(m) - 1) :
          PixelAt(m2, px, py) = IF InRegion(m, r, px, py) THEN 0 ELSE PixelAt(m, px, py)

\* C24: clear_region(x, y, w, h) sets to 0 exactly the buffer pixels inside
\* the rectangle (clipped to the display) and leaves all other pixels
\* unchanged, w = 0 standing for the full display width and h = 0 for the
\* full display height; a clear of {x: 0, y: 0, w: 0, h: 0} on an 8 x 8
\* single-device display leaves every buffer pixel 0.
C24_ClearRegionIsExact ==
    [][shw'.writes = shw.writes + 1 =>
          \A r \in ClearRegions :
              matrix' = clear_region(matrix, r[1], r[2], r[3], r[4]) =>
                  /\ ExactlyCleared(matrix, matrix', r)
                  /\ (r = <<0, 0, 0, 0>> /\ device_count(matrix) = 1) =>
                        \A i \in DOMAIN matrix'.buffer : matrix'.buffer[i] = 0]_vars

\* C24's case: on the 8 x 8 display the right half of a fully lit buffer has
\* been cleared, the left half is still lit
C24_Witness ==
    /\ device_count(matrix) = 1 /\ shw.writes = 2
    /\ \A i \in DOMAIN matrix.buffer : matrix.buffer[i] = 240

\* the byte last transmitted for buffer index i (boot.py has shown the
\* zeroed buffer with force before the first call)
LastTransmitted(i) == IF shw.sent = <<>> THEN 0 ELSE shw.sent[i]

\* C33: with no concurrent buffer writes, whenever a show() without the
\* force flag returns, the contents last transmitted to the non-skipped
\* devices equal the current buffer contents (every change of the buffer
\* since the last transmission makes the next show() transmit).
C33_ShowTransmitsEveryChange ==
    (shw.pc = "idle" /\ shw.last \in {"sent", "skipped"} /\ ~shw.force /\ shw.quiet) =>
        \A d \in ShownDevices(matrix), r \in 0..(pixels_per_side - 1) :
            LET i == get_buffer_index(matrix, d, r)
            IN  LastTransmitted(i) = matrix.buffer[i]

(***************************************************************************)
(* Properties of the frames.                                               *)
(***************************************************************************)

\* C23: for every width W >= 1, height H >= 1 and every W x H pixel matrix,
\* encoding it to packed bits (set_frame) and decoding the result (load_data
\* with the same W and H) succeeds and yields a frame whose pixel (x, y) is
\* the original pixel (x, y) for all x, y.
C23_PackedRoundTrip ==
    baked.pc = "loaded" =>
        /\ ~baked.raised
        /\ \A x \in 0..(baked.width - 1), y \in 0..(baked.height - 1) :
              pixel(baked.frame, x, y) = baked.pixels[y * baked.width + x]

\* frame c is frame f seen through region r: mirrored and flipped as the
\* flags say, once
SeenThrough(c, f, r) ==
    /\ c.width = f.width /\ c.height = f.height
    /\ \A x \in 0..(f.width - 1), y \in 0..(f.height - 1) :
          pixel(c, x, y) = pixel(f, IF r.mirror THEN f.width - x - 1 ELSE x,
                                    IF r.flip THEN f.height - y - 1 ELSE y)

\* the frame Frame.from_json builds for image px
Original(px) == FrameOf(baked.width, baked.height, px)

\* C29: after an Animation is constructed every region holds exactly one
\* cached frame per animation frame, the mirror/flip transform applied once
\* to a copy (an object of its own); attaching leaves the base frames
\* unchanged, and no later tick, play, pause, resume or stop changes the
\* number or the pixels of the cached frames.
C29_RegionCachesFrames ==
    /\ [](baked.pc \in {"attach", "built"} =>
            \A k \in 1..Len(baked.frames) : baked.objs[baked.frames[k]] = Original(baked.images[k]))
    /\ [](baked.pc = "built" =>
            \A r \in 1..Len(baked.regions) :
               LET cache == baked.regions[r].frames
               IN  /\ Len(cache) = Len(baked.frames)
                   /\ \A k \in 1..Len(cache) :
                         /\ cache[k] > Len(baked.frames)
                         /\ SeenThrough(baked.objs[cache[k]], Original(baked.images[k]),
                                        baked.regions[r])
                         /\ \A r2 \in 1..Len(baked.regions), k2 \in 1..Len(cache) :
                               baked.regions[r2].frames[k2] = cache[k] => (r2 = r /\ k2 = k))
    /\ [][baked.pc = "built" => baked' = baked]_vars

\* C29's case: two frames have been attached to a flipping and to a
\* mirroring and flipping region, the animation has been played and has
\* advanced, and a cached frame differs from its base frame
C29_Witness ==
    /\ baked.pc = "built" /\ Len(baked.frames) = 2 /\ Len(baked.regions) = 2
    /\ played /\ lastEvent.kind = "step"
    /\ baked.objs[baked.regions[2].frames[1]] # baked.objs[baked.frames[1]]

====
